---- MODULE Spec2Model ----
(***************************************************************************)
(* Verification model of the Nucleus request-handling engine.              *)
(*                                                                         *)
(* The engine is modelled as independent subsystems, each with its own     *)
(* state variables and its own specification:                              *)
(*   SpecProvider  Provider.chat of the CoreML and the mistral.rs backend  *)
(*   SpecServer    one connection of the Unix-socket server (core)         *)
(*   SpecConn      one connection of the IPC server (nucleus-core):        *)
(*                 handler task, writer task and the channel between them  *)
(*   SpecStart     the accept loop, shutdown, and the shared provider      *)
(*   SpecRegistry  the plugin registry, plugin execution and the tool      *)
(*                 callbacks built over its plugins                        *)
(*   SpecStore     the vector stores: in-memory VectorStore, LanceDbStore  *)
(* A specification runs its own subsystem and keeps the variables of the   *)
(* other subsystems at their freshly constructed values.                   *)
(*                                                                         *)
(* Text is modelled as a sequence of characters (<<>> is the empty         *)
(* string), so that concatenation is \o.                                   *)
(***************************************************************************)
EXTENDS Integers, Sequences, FiniteSets, TLC

VARIABLES
    \* ---- Provider.chat (one call) ----
    backend,        \* "coreml" | "mistralrs": the backend the call runs on
    has_tokenizer,  \* CoreMLProvider._tokenizer.is_some()
    chatPc,         \* "idle" | "loop" | "ok" | "err": position of the call
    step,           \* loop variable of CoreMLProvider::chat
    emitted,        \* done flags of the chunks passed to the callback, in order
    request_max_tokens, \* the token limit the caller asks for: {} or {n}
    chat_error,     \* the ProviderError chat returned, or NoError
    runtime_outcome, \* history: how send_chat_request under the timeout ended
    \* ---- core server, one connection ----
    srvPc,          \* "read" | "dispatch" | "chat" | "closed"
    reqType,        \* request.request_type once parsed, else NoRequest
    srvResult,      \* result of handle_connection_impl: "none" | "ok" | "err"
    out,            \* what was written to the socket: chunk records and NL
    full_response,  \* handle_chat's accumulator
    delivered,      \* history: every content the provider passed to the callback
    nResp,          \* history: number of callback invocations
    providerCalls,  \* history: number of ollama_client.chat calls
    connDropped,    \* the client has closed its end
    writeFailed,    \* history: some write to the socket failed
    chunkWriteFailed, \* history: the write of some "chunk" line failed
    req_history,    \* request.history once parsed
    req_content,    \* request.content once parsed
    chat_messages,  \* history: the messages of the ChatRequest given to chat
    \* ---- nucleus-core server, one connection ----
    connPc,         \* "read" | "running" | "joined" | "failed"
    handlePc,       \* handle_task: "none" | "running" | "done"
    writePc,        \* write_task: "none" | "running" | "done" | "failed"
    chan,           \* the unbounded channel's buffer
    sent,           \* history: the chunks the handler sent into the channel
    wire,           \* the chunks written to the stream, in order
    \* ---- Server::start ----
    startPc,        \* "init" | "accepting" | "returned" | "failed"
    sockFile,       \* the file at SOCKET_PATH: "absent" | "stale" | "bound"
    acceptOff,      \* the accept arm of the pending select! is disabled
    sigint,         \* ctrl_c has been delivered
    tasks,          \* per spawned handler: "spawned" | "chat" | "done" | "aborted"
    taskProvider,   \* per spawned handler: the provider instance it uses
    inFlightAtSignal, \* history: the handlers not finished when ctrl_c arrived
    sockMode,       \* permissions of the socket file: "none" | "umask" | "0600"
    listening,      \* the UnixListener exists: connections to the path queue
    \* ---- PluginRegistry ----
    granted_permissions, \* PluginRegistry.granted_permissions
    plugins,        \* PluginRegistry.plugins: name -> plugin
    regCalls,       \* history: number of register calls made
    regLast,        \* history: the last call and what it returned
    \* ---- vector store ----
    store_kind,     \* "memory" (VectorStore) | "lancedb" (LanceDbStore)
    documents,      \* the stored documents, in insertion order
    storeAdds,      \* history: number of add calls made
    storeLast,      \* history: the last call and what it returned
    \* ---- in-memory VectorStore shared by threads ----
    lock_writer,    \* the thread holding the RwLock for writing, or NoThread
    lock_readers,   \* the threads holding the RwLock for reading
    shared_docs,    \* the Vec behind the lock; an entry being written is partial
    adderPc,        \* per adding thread: position in add
    readerPc,       \* per reading thread: position in search / count
    readerStart,    \* history: adds that had returned when the read was called
    readerSeen,     \* history: what the last read of the thread observed
    addsStarted,    \* history: number of add calls made
    addsReturned,   \* history: number of add calls that have returned
    \* ---- token selection, two chat calls from the same provider state ----
    temperature,    \* request.temperature of both calls
    logits_at,      \* what predict_stateful writes to logits at each step
    chosen,         \* per call: the next_token_id of every step so far
    genPc,          \* per call: "loop" | "ok"
    \* ---- VectorStore persistence ----
    persistence_path, \* VectorStore.persistence_path.is_some()
    disk_file,      \* the file at the persistence path
    persist_documents, \* the store's documents, in order
    last_saved,     \* history: the documents of the write the file holds
    persistLast,    \* history: the last call and what it returned
    \* ---- Config ----
    cfg_file,       \* the configuration file at the path
    cfgLast,        \* history: the last constructor call and its result
    \* ---- VectorStore::load beside add ----
    race_path, \* VectorStore.persistence_path.is_some()
    race_file, \* the file at the persistence path
    race_writer, \* the thread holding the RwLock for writing
    race_docs, \* the documents of the shared store
    raceAdderPc, \* per adding thread: "idle" | "locked"
    loaderPc, \* "idle" | "reading" | "read" | "locked" | "done"
    race_loaded, \* what load_from_disk returned to load
    raceAdds, \* add calls made so far
    returned_in_load, \* history: ids of the adds that returned during the load
    \* ---- fallback tokenizer ----
    tok_text, \* the text, as its code points
    tok_ids, \* the token ids simple_encode returned
    tok_decoded, \* the text simple_decode returned
    tokPc, \* "text" | "encoded" | "decoded"
    \* ---- CoreMLProvider::format_chat_prompt ----
    fmt_messages, \* the messages handed to format_chat_prompt
    fmt_result, \* per provider: what format_chat_prompt returned
    \* ---- MistralRsProvider tools ----
    model_name, \* config.llm.model, as what build_model looks at
    tool_registry, \* the names of the registry's plugins
    toolPc, \* "new" | "ready" | "failed"
    tool_callbacks, \* the names with a tool callback in the loaded model
    advertised, \* the tools of the last chat request
    routed, \* where the last tool call of the runtime went
    \* ---- HttpTransport ----
    next_id, \* HttpTransport.next_id
    session_id, \* HttpTransport.session_id
    httpCalls, \* calls made on the transport so far
    latest_session, \* history: the last Mcp-Session-Id a successful response carried
    httpLast \* history: the last call, what it posted and what it returned

provVars  == <<backend, has_tokenizer, chatPc, step, emitted,
               request_max_tokens, chat_error, runtime_outcome>>
srvVars   == <<srvPc, reqType, srvResult, out, full_response, delivered, nResp,
               providerCalls, connDropped, writeFailed, chunkWriteFailed,
               req_history, req_content, chat_messages>>
connVars  == <<connPc, handlePc, writePc, chan, sent, wire>>
startVars == <<startPc, sockFile, acceptOff, sigint, tasks, taskProvider,
               inFlightAtSignal, sockMode, listening>>
regVars   == <<granted_permissions, plugins, regCalls, regLast>>
storeVars == <<store_kind, documents, storeAdds, storeLast>>
rwVars    == <<lock_writer, lock_readers, shared_docs, adderPc, readerPc,
               readerStart, readerSeen, addsStarted, addsReturned>>
genVars   == <<temperature, logits_at, chosen, genPc>>
persistVars == <<persistence_path, disk_file, persist_documents, last_saved,
                 persistLast>>
cfgVars   == <<cfg_file, cfgLast>>
raceVars == <<race_path, race_file, race_writer, race_docs, raceAdderPc, loaderPc, race_loaded, raceAdds, returned_in_load>>
tokVars == <<tok_text, tok_ids, tok_decoded, tokPc>>
fmtVars == <<fmt_messages, fmt_result>>
toolVars == <<model_name, tool_registry, toolPc, tool_callbacks, advertised, routed>>
httpVars == <<next_id, session_id, httpCalls, latest_session, httpLast>>
vars      == <<provVars, srvVars, connVars, startVars, regVars, storeVars,
               rwVars, genVars, persistVars, cfgVars,
                raceVars,
                tokVars,
                fmtVars,
                toolVars,
                httpVars>>

\* What the actions of one subsystem leave alone.
exceptProv  == <<srvVars, connVars, startVars, regVars, storeVars,
                rwVars, genVars,
                persistVars, cfgVars,
                raceVars,
                tokVars,
                fmtVars,
                toolVars,
                httpVars>>
exceptSrv   == <<provVars, connVars, startVars, regVars, storeVars,
                rwVars, genVars,
                persistVars, cfgVars,
                raceVars,
                tokVars,
                fmtVars,
                toolVars,
                httpVars>>
exceptConn  == <<provVars, srvVars, startVars, regVars, storeVars,
                rwVars, genVars,
                persistVars, cfgVars,
                raceVars,
                tokVars,
                fmtVars,
                toolVars,
                httpVars>>
exceptStart == <<provVars, srvVars, connVars, regVars, storeVars,
                rwVars, genVars,
                persistVars, cfgVars,
                raceVars,
                tokVars,
                fmtVars,
                toolVars,
                httpVars>>
exceptReg   == <<provVars, srvVars, connVars, startVars, storeVars,
                rwVars, genVars,
                persistVars, cfgVars,
                raceVars,
                tokVars,
                fmtVars,
                toolVars,
                httpVars>>
exceptStore == <<provVars, srvVars, connVars, startVars, regVars,
                rwVars, genVars,
                persistVars, cfgVars,
                raceVars,
                tokVars,
                fmtVars,
                toolVars,
                httpVars>>
exceptRw    == <<provVars, srvVars, connVars, startVars, regVars, storeVars,
                genVars,
                persistVars, cfgVars,
                raceVars,
                tokVars,
                fmtVars,
                toolVars,
                httpVars>>
exceptGen   == <<provVars, srvVars, connVars, startVars, regVars, storeVars,
                rwVars,
                persistVars, cfgVars,
                raceVars,
                tokVars,
                fmtVars,
                toolVars,
                httpVars>>
exceptPersist == <<provVars, srvVars, connVars, startVars, regVars, storeVars,
                   rwVars, genVars, cfgVars,
                raceVars,
                tokVars,
                fmtVars,
                toolVars,
                httpVars>>
exceptCfg   == <<provVars, srvVars, connVars, startVars, regVars, storeVars,
                rwVars, genVars, persistVars,
                raceVars,
                tokVars,
                fmtVars,
                toolVars,
                httpVars>>
exceptRace == <<provVars, srvVars, connVars, startVars, regVars, storeVars, rwVars, genVars, persistVars, cfgVars,
                tokVars,
                fmtVars,
                toolVars,
                httpVars>>
exceptTok == <<provVars, srvVars, connVars, startVars, regVars, storeVars, rwVars, genVars, persistVars, cfgVars, raceVars,
                fmtVars,
                toolVars,
                httpVars>>
exceptFmt == <<provVars, srvVars, connVars, startVars, regVars, storeVars, rwVars, genVars, persistVars, cfgVars, raceVars, tokVars,
                toolVars,
                httpVars>>
exceptTool == <<provVars, srvVars, connVars, startVars, regVars, storeVars, rwVars, genVars, persistVars, cfgVars, raceVars, tokVars, fmtVars,
                httpVars>>
exceptHttp == <<provVars, srvVars, connVars, startVars, regVars, storeVars, rwVars, genVars, persistVars, cfgVars, raceVars, tokVars, fmtVars, toolVars>>

(***************************************************************************)
(* Provider.chat                                                           *)
(***************************************************************************)

\* let max_tokens = 512;
max_tokens == 512

\* Token ids range over 0 .. VocabSize; _vocab_size is VocabSize.
VocabSize == 2

Tokens == 0 .. VocabSize

\* next_token_id == 0 || next_token_id >= self._vocab_size
IsEosOrInvalid(tok) == tok = 0 \/ tok >= VocabSize

\* The optional max_tokens of a chat request: unset, or a limit.  The
\* ChatRequest the provider receives has no field for it.
RequestMaxTokens == {{}, {1}, {2}}

\* let timeout_duration = Duration::from_secs(60)
timeout_secs == 60

\* A ProviderError: its variant, the fixed beginning of its message, and the
\* number the message carries.
ProviderError(variant, msg, n) == [variant |-> variant, msg |-> msg, n |-> n]

NoError == ProviderError("None", "", 0)

\* The timeout reported with the words of a failed request.
timeout_error_as_failed(secs) == ProviderError("Other", "Chat request failed", 0)

\* map_err of the elapsed timeout
timeout_error(secs) == ProviderError("Other", "Chat request timed out after", secs)

\* map_err of the runtime's own error
request_failed_error(e) == ProviderError("Other", "Chat request failed", e)

ProvIdle ==
    /\ backend = "coreml"
    /\ has_tokenizer = FALSE
    /\ chatPc = "idle"
    /\ step = 0
    /\ emitted = <<>>
    /\ request_max_tokens = {}
    /\ chat_error = NoError
    /\ runtime_outcome = "none"

ProvInit ==
    /\ backend \in {"coreml", "mistralrs"}
    /\ has_tokenizer \in BOOLEAN
    /\ chatPc = "idle"
    /\ step = 0
    /\ emitted = <<>>
    /\ request_max_tokens \in RequestMaxTokens
    /\ chat_error = NoError
    /\ runtime_outcome = "none"

\* CoreMLProvider::chat up to the loop: format_chat_prompt(...)?
CoremlBegin ==
    /\ backend = "coreml"
    /\ chatPc = "idle"
    /\ \E promptOk \in BOOLEAN :
          /\ chatPc' = IF promptOk THEN "loop" ELSE "err"
          /\ chat_error' = IF promptOk THEN NoError
                           ELSE ProviderError("Other", "Unsupported role", 0)
    /\ UNCHANGED <<backend, has_tokenizer, step, emitted, request_max_tokens,
                   runtime_outcome>>
    /\ UNCHANGED exceptProv

\* One iteration of `for step in 0..max_tokens`.
CoremlStep ==
    /\ backend = "coreml"
    /\ chatPc = "loop"
    /\ step < max_tokens
    /\ \E predictOk \in BOOLEAN, tok \in Tokens, decodeOk \in BOOLEAN :
          IF ~predictOk
          THEN \* self.predict_stateful(&input_ids, &mut logits)?
               /\ chatPc' = "err"
               /\ chat_error' = ProviderError("Other", "CoreML stateful prediction failed with code", 1)
               /\ UNCHANGED <<step, emitted>>
          ELSE IF IsEosOrInvalid(tok)
          THEN \* callback(done: true); break
               /\ emitted' = Append(emitted, TRUE)
               /\ chatPc' = "ok"
               /\ UNCHANGED <<step, chat_error>>
          ELSE IF has_tokenizer /\ ~decodeOk
          THEN \* tokenizer.decode(...).map_err(...)?
               /\ chatPc' = "err"
               /\ chat_error' = ProviderError("Other", "Detokenization failed", 0)
               /\ UNCHANGED <<step, emitted>>
          ELSE \* callback(done: false)
               /\ emitted' = Append(emitted, FALSE)
               /\ step' = step + 1
               /\ UNCHANGED <<chatPc, chat_error>>
    /\ UNCHANGED <<backend, has_tokenizer, request_max_tokens, runtime_outcome>>
    /\ UNCHANGED exceptProv

\* The range 0..max_tokens is exhausted: fall out of the loop, Ok(()).
CoremlLoopEnd ==
    /\ backend = "coreml"
    /\ chatPc = "loop"
    /\ step >= max_tokens
    /\ chatPc' = "ok"
    /\ UNCHANGED <<backend, has_tokenizer, step, emitted, request_max_tokens,
                   chat_error, runtime_outcome>>
    /\ UNCHANGED exceptProv

\* MistralRsProvider::chat: one request to the runtime, one callback.
MistralChat ==
    /\ backend = "mistralrs"
    /\ chatPc = "idle"
    /\ \E outcome \in {"timeout", "failed", "no_choices", "response"} :
          /\ runtime_outcome' = outcome
          /\ IF outcome = "response"
             THEN /\ emitted' = Append(emitted, TRUE)
                  /\ chatPc' = "ok"
                  /\ UNCHANGED chat_error
             ELSE /\ chatPc' = "err"
                  /\ chat_error' =
                        CASE outcome = "timeout" -> timeout_error(timeout_secs)
                          [] outcome = "failed" -> request_failed_error(0)
                          [] outcome = "no_choices" ->
                                ProviderError("Other", "No response choices", 0)
                  /\ UNCHANGED emitted
    /\ UNCHANGED <<backend, has_tokenizer, step, request_max_tokens>>
    /\ UNCHANGED exceptProv

ProvNext == CoremlBegin \/ CoremlStep \/ CoremlLoopEnd \/ MistralChat


(***************************************************************************)
(* core server: one accepted connection (core/src/server.rs)               *)
(***************************************************************************)

\* Longest provider reply, in callback invocations, that the model explores.
MaxResponses == 3

\* response.message.content values the provider may stream; <<>> is "".
Contents == {<<>>, <<"a">>, <<"b">>}

\* The "type" values a parsed request may carry ("foo" stands for any other).
RequestTypes == {"chat", "edit", "add", "index", "stats", "foo"}

NoRequest == "<unparsed>"

\* Longest request.history the model explores.
MaxHistory == 2

\* config.system_prompt
system_prompt == "You are a helpful AI assistant"

Message(role, content) == [role |-> role, content |-> content]

Message_system(content) == Message("system", content)

Message_user(content) == Message("user", content)

\* The messages a history is made of: two roles, two contents.
HistoryMessages == {Message("user", "h1"), Message("assistant", "h2")}

\* request.history: None, or Some of a list.
NoHistory == [some |-> FALSE, msgs |-> <<>>]

Histories ==
    {NoHistory} \cup
    {[some |-> TRUE, msgs |-> m] :
        m \in UNION {[1..n -> HistoryMessages] : n \in 0..MaxHistory}}

\* request.content
RequestContents == {"q"}

build_messages_user_first(prompt, history, content) ==
    <<Message_system(prompt), Message_user(content)>>
        \o (IF history.some
            THEN [i \in 1..Len(history.msgs) |->
                     Message(history.msgs[i].role, history.msgs[i].content)]
            ELSE <<>>)

\* handle_chat, up to ChatRequest::new: the system prompt, the history
\* pushed message by message, the user message.
build_messages(prompt, history, content) ==
    <<Message_system(prompt)>>
        \o (IF history.some
            THEN [i \in 1..Len(history.msgs) |->
                     Message(history.msgs[i].role, history.msgs[i].content)]
            ELSE <<>>)
        \o <<Message_user(content)>>

StreamChunk_chunk(c) == [type |-> "chunk", content |-> c, error |-> "None"]

StreamChunk_done(c) == [type |-> "done", content |-> c, error |-> "None"]

StreamChunk_error(e) == [type |-> "error", content |-> <<>>, error |-> e]

\* The b"\n" that ends a line.
NL == [type |-> "NL", content |-> <<>>, error |-> "None"]

\* match request.request_type.as_str()
DispatchDefaultChat(t) ==
    CASE t \in {"add", "index", "stats"} -> t
      [] OTHER -> "chat"

Dispatch(t) ==
    CASE t \in {"chat", "edit"} -> "chat"
      [] t \in {"add", "index", "stats"} -> t
      [] OTHER -> "unknown"

\* full_response.push_str(&response.message.content)
AccumulateOverwrite(full, c) == c

Accumulate(full, c) == full \o c

\* Outcomes of writing one line: both write_all calls succeed; the first
\* fails (nothing written); the second fails (the JSON is written, the
\* newline is not).  Every write to a connection the client closed fails.
WriteOutcomes ==
    IF connDropped THEN {"fail_json"} ELSE {"ok", "fail_json", "fail_nl"}

\* writer.write_all(json.as_bytes()); writer.write_all(b"\n")
WriteLine(o, rec, w) ==
    CASE w = "ok" -> o \o <<rec, NL>>
      [] w = "fail_json" -> o
      [] w = "fail_nl" -> Append(o, rec)

\* The lines a reader of the socket sees: the records before each newline.
RECURSIVE SplitLines(_, _)
SplitLines(o, cur) ==
    IF o = <<>> THEN <<>>
    ELSE IF Head(o) = NL THEN <<cur>> \o SplitLines(Tail(o), <<>>)
    ELSE SplitLines(Tail(o), Append(cur, Head(o)))

Lines(o) == SplitLines(o, <<>>)

\* serde_json::from_str::<StreamChunk>(&line) succeeds on exactly one record.
IsLineOfType(line, t) == Len(line) = 1 /\ line[1].type = t

ServerIdle ==
    /\ srvPc = "read"
    /\ reqType = NoRequest
    /\ srvResult = "none"
    /\ out = <<>>
    /\ full_response = <<>>
    /\ delivered = <<>>
    /\ nResp = 0
    /\ providerCalls = 0
    /\ connDropped = FALSE
    /\ writeFailed = FALSE
    /\ chunkWriteFailed = FALSE
    /\ req_history = NoHistory
    /\ req_content = ""
    /\ chat_messages = <<>>

\* reader.read_line(&mut line).await?; serde_json::from_str(&line)?
ReadRequest ==
    /\ srvPc = "read"
    /\ \E outcome \in {"read_error", "bad_json"} \cup RequestTypes :
          IF outcome \in RequestTypes
          THEN /\ reqType' = outcome
               /\ req_history' \in Histories
               /\ req_content' \in RequestContents
               /\ srvPc' = "dispatch"
               /\ UNCHANGED srvResult
          ELSE /\ srvPc' = "closed"
               /\ srvResult' = "err"
               /\ UNCHANGED <<reqType, req_history, req_content>>
    /\ UNCHANGED <<out, full_response, delivered, nResp, providerCalls,
                   connDropped, writeFailed, chunkWriteFailed, chat_messages>>
    /\ UNCHANGED exceptSrv

\* A terminal line, written with `?` on both write_all calls, after which
\* the function returns and the stream is dropped.
WriteTerminal(rec) ==
    \E w \in WriteOutcomes :
        /\ out' = WriteLine(out, rec, w)
        /\ srvResult' = IF w = "ok" THEN "ok" ELSE "err"
        /\ writeFailed' = (writeFailed \/ w # "ok")
        /\ srvPc' = "closed"

\* The "add", "index" and "stats" arms.
AdminReply ==
    /\ srvPc = "dispatch"
    /\ Dispatch(reqType) \in {"add", "index", "stats"}
    /\ WriteTerminal(StreamChunk_done(<<Dispatch(reqType)>>))
    /\ UNCHANGED <<reqType, full_response, delivered, nResp, providerCalls,
                   connDropped, chunkWriteFailed>>
    /\ UNCHANGED <<req_history, req_content, chat_messages>>
    /\ UNCHANGED exceptSrv

\* The `_` arm.
UnknownReply ==
    /\ srvPc = "dispatch"
    /\ Dispatch(reqType) = "unknown"
    /\ WriteTerminal(StreamChunk_error("Unknown request type"))
    /\ UNCHANGED <<reqType, full_response, delivered, nResp, providerCalls,
                   connDropped, chunkWriteFailed>>
    /\ UNCHANGED <<req_history, req_content, chat_messages>>
    /\ UNCHANGED exceptSrv

\* The "chat" | "edit" arm up to the call of ollama_client.chat.
HandleChatBegin ==
    /\ srvPc = "dispatch"
    /\ Dispatch(reqType) = "chat"
    /\ srvPc' = "chat"
    /\ full_response' = <<>>
    /\ providerCalls' = providerCalls + 1
    /\ chat_messages' = build_messages(system_prompt, req_history, req_content)
    /\ UNCHANGED <<reqType, srvResult, out, delivered, nResp, connDropped,
                   writeFailed, chunkWriteFailed, req_history, req_content>>
    /\ UNCHANGED exceptSrv

\* The closure passed to ollama_client.chat, run once per streamed response.
ChatCallback ==
    /\ srvPc = "chat"
    /\ nResp < MaxResponses
    /\ \E c \in Contents :
          /\ delivered' = delivered \o c
          /\ nResp' = nResp + 1
          /\ IF c # <<>>
             THEN /\ full_response' = Accumulate(full_response, c)
                  /\ \E w \in WriteOutcomes :
                        /\ out' = WriteLine(out, StreamChunk_chunk(c), w)
                        /\ writeFailed' = (writeFailed \/ w # "ok")
                        /\ chunkWriteFailed' = (chunkWriteFailed \/ w # "ok")
             ELSE UNCHANGED <<full_response, out, writeFailed, chunkWriteFailed>>
    /\ UNCHANGED <<srvPc, reqType, srvResult, providerCalls, connDropped>>
    /\ UNCHANGED <<req_history, req_content, chat_messages>>
    /\ UNCHANGED exceptSrv

\* match result { Ok(_) => done(&full_response) ... }
ChatOk ==
    /\ srvPc = "chat"
    /\ WriteTerminal(StreamChunk_done(full_response))
    /\ UNCHANGED <<reqType, full_response, delivered, nResp, providerCalls,
                   connDropped, chunkWriteFailed>>
    /\ UNCHANGED <<req_history, req_content, chat_messages>>
    /\ UNCHANGED exceptSrv

\* match result { ... Err(e) => error(e.to_string()) }
ChatErr ==
    /\ srvPc = "chat"
    /\ WriteTerminal(StreamChunk_error("Ollama error"))
    /\ UNCHANGED <<reqType, full_response, delivered, nResp, providerCalls,
                   connDropped, chunkWriteFailed>>
    /\ UNCHANGED <<req_history, req_content, chat_messages>>
    /\ UNCHANGED exceptSrv

\* The client closes its end of the connection.
ClientDrop ==
    /\ srvPc # "closed"
    /\ ~connDropped
    /\ connDropped' = TRUE
    /\ UNCHANGED <<srvPc, reqType, srvResult, out, full_response, delivered,
                   nResp, providerCalls, writeFailed, chunkWriteFailed>>
    /\ UNCHANGED <<req_history, req_content, chat_messages>>
    /\ UNCHANGED exceptSrv

ServerNext ==
    \/ ReadRequest
    \/ AdminReply
    \/ UnknownReply
    \/ HandleChatBegin
    \/ ChatCallback
    \/ ChatOk
    \/ ChatErr
    \/ ClientDrop

(***************************************************************************)
(* nucleus-core server: one accepted connection (server/mod.rs)            *)
(***************************************************************************)

\* Longest chunk stream, in sends, that the model explores.
MaxChunks == 3

\* What the handler may send: two contents, so that order and duplication show.
ChunkValues == {"a", "b"}

ConnIdle ==
    /\ connPc = "read"
    /\ handlePc = "none"
    /\ writePc = "none"
    /\ chan = <<>>
    /\ sent = <<>>
    /\ wire = <<>>

\* transport::read_request(&mut stream).await?, then the channel and the
\* two tokio::spawn calls.
ConnReadAndSpawn ==
    /\ connPc = "read"
    /\ \E readOk \in BOOLEAN :
          IF readOk
          THEN /\ connPc' = "running"
               /\ handlePc' = "running"
               /\ writePc' = "running"
          ELSE /\ connPc' = "failed"
               /\ UNCHANGED <<handlePc, writePc>>
    /\ UNCHANGED <<chan, sent, wire>>
    /\ UNCHANGED exceptConn

\* handler.handle: one sender.send(chunk).  The send fails, and the chunk
\* goes nowhere, once the receiver has been dropped.
HandlerSend ==
    /\ handlePc = "running"
    /\ Len(sent) < MaxChunks
    /\ \E c \in ChunkValues :
          IF writePc = "running"
          THEN /\ chan' = Append(chan, c)
               /\ sent' = Append(sent, c)
          ELSE UNCHANGED <<chan, sent>>
    /\ UNCHANGED <<connPc, handlePc, writePc, wire>>
    /\ UNCHANGED exceptConn

\* handler.handle returns: handle_task ends and the sender is dropped.
HandlerReturn ==
    /\ handlePc = "running"
    /\ handlePc' = "done"
    /\ UNCHANGED <<connPc, writePc, chan, sent, wire>>
    /\ UNCHANGED exceptConn

\* transport::write_chunks: receive the next chunk and write it as a line.
\* A failed write ends the task and drops the receiver with what it holds.
WriterWrite ==
    /\ writePc = "running"
    /\ chan # <<>>
    /\ \E writeOk \in BOOLEAN :
          IF writeOk
          THEN /\ wire' = Append(wire, Head(chan))
               /\ chan' = Tail(chan)
               /\ UNCHANGED writePc
          ELSE /\ writePc' = "failed"
               /\ chan' = <<>>
               /\ UNCHANGED wire
    /\ UNCHANGED <<connPc, handlePc, sent>>
    /\ UNCHANGED exceptConn

\* transport::write_chunks: recv() returns None (channel empty, sender
\* dropped) and the task ends.
WriterEnd ==
    /\ writePc = "running"
    /\ chan = <<>>
    /\ handlePc = "done"
    /\ writePc' = "done"
    /\ UNCHANGED <<connPc, handlePc, chan, sent, wire>>
    /\ UNCHANGED exceptConn

\* tokio::try_join!(handle_task, write_task)?
JoinHandlerOnly ==
    /\ connPc = "running"
    /\ handlePc = "done"
    /\ connPc' = "joined"
    /\ UNCHANGED <<handlePc, writePc, chan, sent, wire>>
    /\ UNCHANGED exceptConn

Join ==
    /\ connPc = "running"
    /\ handlePc = "done"
    /\ writePc \in {"done", "failed"}
    /\ connPc' = "joined"
    /\ UNCHANGED <<handlePc, writePc, chan, sent, wire>>
    /\ UNCHANGED exceptConn

ConnNext ==
    \/ ConnReadAndSpawn
    \/ HandlerSend
    \/ HandlerReturn
    \/ WriterWrite
    \/ WriterEnd
    \/ Join

(***************************************************************************)
(* Server::start: bind, accept loop, shutdown                              *)
(***************************************************************************)

\* Most connections accepted in one run of the model.
MaxConns == 3

\* Server::new builds one provider; every handler reaches it through the
\* same Arc.
TheProvider == "provider"

StartIdle ==
    /\ startPc = "init"
    /\ sockFile = "absent"
    /\ acceptOff = FALSE
    /\ sigint = FALSE
    /\ tasks = <<>>
    /\ taskProvider = <<>>
    /\ inFlightAtSignal = {}
    /\ sockMode = "none"
    /\ listening = FALSE

StartInit ==
    /\ startPc = "init"
    /\ sockFile \in {"absent", "stale"}
    /\ acceptOff = FALSE
    /\ sigint = FALSE
    /\ tasks = <<>>
    /\ taskProvider = <<>>
    /\ inFlightAtSignal = {}
    /\ sockMode = "none"
    /\ listening = FALSE

Unfinished == {i \in DOMAIN tasks : tasks[i] \in {"spawned", "chat"}}

\* The permissions bind(2) gives the new socket file: whatever the process
\* umask leaves, which is 0600 only under a umask that masks the rest.
BindModes == {"umask", "0600"}

\* start() through UnixListener::bind: remove a file found at the path,
\* then bind and listen.
StartBind ==
    /\ startPc = "init"
    /\ \E outcome \in {"ok", "remove_failed", "bind_failed"} :
          CASE outcome = "ok" ->
                 /\ startPc' = "bound"
                 /\ sockFile' = "bound"
                 /\ sockMode' \in BindModes
                 /\ listening' = TRUE
            [] outcome = "remove_failed" ->
                 /\ sockFile = "stale"
                 /\ startPc' = "failed"
                 /\ UNCHANGED <<sockFile, sockMode, listening>>
            [] outcome = "bind_failed" ->
                 /\ startPc' = "failed"
                 /\ sockFile' = "absent"
                 /\ UNCHANGED <<sockMode, listening>>
    /\ UNCHANGED <<acceptOff, sigint, tasks, taskProvider, inFlightAtSignal>>
    /\ UNCHANGED exceptStart

\* std::fs::set_permissions(SOCKET_PATH, 0o600)?: on failure start returns
\* and the listener is dropped; the file stays.
StartSetPermissions ==
    /\ startPc = "bound"
    /\ \E outcome \in {"ok", "chmod_failed"} :
          CASE outcome = "ok" ->
                 /\ startPc' = "accepting"
                 /\ sockMode' = "0600"
                 /\ UNCHANGED listening
            [] outcome = "chmod_failed" ->
                 /\ startPc' = "failed"
                 /\ listening' = FALSE
                 /\ UNCHANGED sockMode
    /\ UNCHANGED <<sockFile, acceptOff, sigint, tasks, taskProvider,
                   inFlightAtSignal>>
    /\ UNCHANGED exceptStart

\* select! takes the accept arm: tokio::spawn(handle_connection(...)).
Accept ==
    /\ startPc = "accepting"
    /\ ~acceptOff
    /\ Len(tasks) < MaxConns
    /\ tasks' = Append(tasks, "spawned")
    /\ taskProvider' = Append(taskProvider, TheProvider)
    /\ UNCHANGED <<startPc, sockFile, acceptOff, sigint, inFlightAtSignal>>
    /\ UNCHANGED <<sockMode, listening>>
    /\ UNCHANGED exceptStart

\* listener.accept() yields Err: the pattern Ok((stream, _)) does not match
\* and select! disables the arm; only the shutdown arm is left.
AcceptError ==
    /\ startPc = "accepting"
    /\ ~acceptOff
    /\ acceptOff' = TRUE
    /\ UNCHANGED <<startPc, sockFile, sigint, tasks, taskProvider,
                   inFlightAtSignal>>
    /\ UNCHANGED <<sockMode, listening>>
    /\ UNCHANGED exceptStart

\* The user presses Ctrl-C.
Sigint ==
    /\ startPc = "accepting"
    /\ ~sigint
    /\ sigint' = TRUE
    /\ inFlightAtSignal' = Unfinished
    /\ UNCHANGED <<startPc, sockFile, acceptOff, tasks, taskProvider>>
    /\ UNCHANGED <<sockMode, listening>>
    /\ UNCHANGED exceptStart

\* select! takes the shutdown arm: drop the listener, remove the socket
\* file, break, return Ok(()).
Shutdown ==
    /\ startPc = "accepting"
    /\ sigint
    /\ startPc' = "returned"
    /\ sockFile' = "absent"
    /\ sockMode' = "none"
    /\ listening' = FALSE
    /\ UNCHANGED <<acceptOff, sigint, tasks, taskProvider, inFlightAtSignal>>
    /\ UNCHANGED exceptStart

\* A spawned handler calls Provider.chat on its provider.
TaskChat ==
    /\ \E i \in DOMAIN tasks :
          /\ tasks[i] = "spawned"
          /\ tasks' = [tasks EXCEPT ![i] = "chat"]
    /\ UNCHANGED <<startPc, sockFile, acceptOff, sigint, taskProvider,
                   inFlightAtSignal>>
    /\ UNCHANGED <<sockMode, listening>>
    /\ UNCHANGED exceptStart

\* A spawned handler runs to its end.
TaskDone ==
    /\ \E i \in DOMAIN tasks :
          /\ tasks[i] \in {"spawned", "chat"}
          /\ tasks' = [tasks EXCEPT ![i] = "done"]
    /\ UNCHANGED <<startPc, sockFile, acceptOff, sigint, taskProvider,
                   inFlightAtSignal>>
    /\ UNCHANGED <<sockMode, listening>>
    /\ UNCHANGED exceptStart

\* main returns after start(): the runtime is dropped and with it every
\* task that has not finished.
RuntimeExit ==
    /\ startPc = "returned"
    /\ Unfinished # {}
    /\ tasks' = [i \in DOMAIN tasks |->
                    IF i \in Unfinished THEN "aborted" ELSE tasks[i]]
    /\ UNCHANGED <<startPc, sockFile, acceptOff, sigint, taskProvider,
                   inFlightAtSignal>>
    /\ UNCHANGED <<sockMode, listening>>
    /\ UNCHANGED exceptStart

StartNext ==
    \/ StartBind
    \/ StartSetPermissions
    \/ Accept
    \/ AcceptError
    \/ Sigint
    \/ Shutdown
    \/ TaskChat
    \/ TaskDone
    \/ RuntimeExit

(***************************************************************************)
(* PluginRegistry (nucleus-plugin/src/registry.rs)                         *)
(***************************************************************************)

\* Most register calls in one run of the model.
MaxRegisterCalls == 3

PluginNames == {"test", "exec"}

\* The permission lattice NONE < READ_ONLY < READ_WRITE < ALL.
Permissions == {"NONE", "READ_ONLY", "READ_WRITE", "ALL"}

PermissionRank(p) ==
    CASE p = "NONE" -> 0
      [] p = "READ_ONLY" -> 1
      [] p = "READ_WRITE" -> 2
      [] p = "ALL" -> 3

\* Permission::allows: granted.allows(required) iff required is below granted.
allows(grantedPerm, required) == PermissionRank(required) <= PermissionRank(grantedPerm)

\* Option::None for a plugin.
NoPlugin == [name |-> "<none>", required |-> "NONE", inst |-> 0]

\* HashMap::new()
EmptyPlugins == [n \in {} |-> NoPlugin]

\* HashMap::insert: adds the entry, or replaces the one under the same key.
HashMapInsert(pl, plugin) ==
    [n \in (DOMAIN pl) \cup {plugin.name} |->
        IF n = plugin.name THEN plugin ELSE pl[n]]

\* PluginRegistry::register, as (the map afterwards, the value returned).
register_insert_first(pl, grantedPerm, plugin) ==
    [plugins |-> HashMapInsert(pl, plugin),
     ok |-> allows(grantedPerm, plugin.required)]

register(pl, grantedPerm, plugin) ==
    IF ~allows(grantedPerm, plugin.required)
    THEN [plugins |-> pl, ok |-> FALSE]
    ELSE [plugins |-> HashMapInsert(pl, plugin), ok |-> TRUE]

\* PluginRegistry::get_count
get_count(pl) == Cardinality(DOMAIN pl)

\* PluginRegistry::get
get(pl, name) == IF name \in DOMAIN pl THEN pl[name] ELSE NoPlugin

\* What a JSON value under a key of the input can be, as far as the plugins
\* tell inputs apart: no such key, a string, or a number.
ArgValues == {"absent", "string", "number"}

\* The inputs of execute: a JSON object with or without "command" and "cwd".
Args == [command : ArgValues, cwd : ArgValues]

NoArgs == [command |-> "absent", cwd |-> "absent"]

\* Plugin::parameter_schema.  ExecPlugin: "required": ["command", "cwd"],
\* both of "type": "string".  TestPlugin: json!({}), which every input
\* satisfies.
satisfies_parameter_schema(name, args) ==
    IF name = "exec"
    THEN args.command = "string" /\ args.cwd = "string"
    ELSE TRUE

\* serde_json::from_value::<ExecParams>: command is a String and must be
\* there; cwd is an Option<PathBuf> with #[serde(default)].
ExecParams_from_value(args) ==
    /\ args.command = "string"
    /\ args.cwd \in {"absent", "string"}

\* Result<PluginOutput, PluginError> of a call, with what the call did:
\* err is the PluginError variant ("None" for Ok), ran tells whether a
\* plugin's execute was entered, spawned whether a command was run.
PluginResult(err, msg, ran, spawned) ==
    [err |-> err, msg |-> msg, ran |-> ran, spawned |-> spawned]

\* Plugin::execute of the plugin called name; spawnOk is whether
\* Command::output() manages to run the command.
Plugin_execute(name, args, spawnOk) ==
    IF name = "exec"
    THEN IF ~ExecParams_from_value(args)
         THEN PluginResult("InvalidInput", "Invalid parameters", TRUE, FALSE)
         ELSE IF spawnOk
              THEN PluginResult("None", "stdout", TRUE, TRUE)
              ELSE PluginResult("ExecutionFailed", "io error", TRUE, FALSE)
    ELSE PluginResult("None", "test output", TRUE, FALSE)

\* PluginRegistry::execute
execute_unknown_as_invalid_input(pl, name, args, spawnOk) ==
    IF name \notin DOMAIN pl
    THEN PluginResult("InvalidInput", "Unknown plugin", FALSE, FALSE)
    ELSE Plugin_execute(name, args, spawnOk)

execute(pl, name, args, spawnOk) ==
    IF get(pl, name) = NoPlugin
    THEN PluginResult("Other", "Unknown plugin", FALSE, FALSE)
    ELSE Plugin_execute(name, args, spawnOk)

\* anyhow::Result<String> of a tool callback.
CallbackResult(ret, text, res) ==
    [ret |-> ret, text |-> text, ran |-> res.ran, spawned |-> res.spawned]

NotRun == PluginResult("None", "", FALSE, FALSE)

\* The closure plugin_to_callback builds for the plugin called name.
\* jsonOk: called_fn.arguments parses as JSON (to args); hasRuntime:
\* Handle::try_current() finds a runtime.
plugin_to_callback(name, jsonOk, args, hasRuntime, spawnOk) ==
    IF ~jsonOk
    THEN CallbackResult("Err", "Failed to parse tool arguments", NotRun)
    ELSE IF ~hasRuntime
    THEN CallbackResult("Err", "No tokio runtime available", NotRun)
    ELSE LET res == Plugin_execute(name, args, spawnOk)
         IN  IF res.err # "None"
             THEN CallbackResult("Err", "Plugin execution failed", res)
             ELSE CallbackResult("Ok", res.msg, res)

NoCall == [op |-> "none", plugin |-> NoPlugin, ok |-> FALSE,
           found |-> NoPlugin, before |-> EmptyPlugins,
           name |-> "<none>", jsonOk |-> TRUE, args |-> NoArgs,
           err |-> "None", msg |-> "", ran |-> FALSE, spawned |-> FALSE]

RegistryIdle ==
    /\ granted_permissions = "NONE"
    /\ plugins = EmptyPlugins
    /\ regCalls = 0
    /\ regLast = NoCall

\* PluginRegistry::new(granted_permissions)
RegistryInit ==
    /\ granted_permissions \in Permissions
    /\ plugins = EmptyPlugins
    /\ regCalls = 0
    /\ regLast = NoCall

\* A call of register with some plugin.
Register ==
    /\ regCalls < MaxRegisterCalls
    /\ \E n \in PluginNames, r \in Permissions :
          LET plugin == [name |-> n, required |-> r, inst |-> regCalls + 1]
              res == register(plugins, granted_permissions, plugin)
          IN  /\ plugins' = res.plugins
              /\ regLast' = [NoCall EXCEPT !.op = "register",
                                           !.plugin = plugin,
                                           !.ok = res.ok,
                                           !.before = plugins]
    /\ regCalls' = regCalls + 1
    /\ UNCHANGED granted_permissions
    /\ UNCHANGED exceptReg

\* A call of get(name).
Get ==
    /\ \E n \in PluginNames :
          regLast' = [NoCall EXCEPT !.op = "get",
                                    !.ok = (get(plugins, n) # NoPlugin),
                                    !.found = get(plugins, n),
                                    !.before = plugins,
                                    !.name = n]
    /\ UNCHANGED <<granted_permissions, plugins, regCalls>>
    /\ UNCHANGED exceptReg

\* A call of execute(name, input): look the plugin up, or fail with
\* "Unknown plugin"; lock it and run its execute on the input as it came.
Execute ==
    /\ \E n \in PluginNames, args \in Args, spawnOk \in BOOLEAN :
          LET res == execute(plugins, n, args, spawnOk)
          IN  regLast' = [NoCall EXCEPT !.op = "execute",
                                        !.ok = (res.err = "None"),
                                        !.found = get(plugins, n),
                                        !.before = plugins,
                                        !.name = n,
                                        !.args = args,
                                        !.err = res.err,
                                        !.msg = res.msg,
                                        !.ran = res.ran,
                                        !.spawned = res.spawned]
    /\ UNCHANGED <<granted_permissions, plugins, regCalls>>
    /\ UNCHANGED exceptReg

\* The model calls a tool: the runtime invokes the callback that build_model
\* registered for one of the registry's plugins.
ToolCall ==
    /\ \E n \in DOMAIN plugins, jsonOk \in BOOLEAN, args \in Args,
          hasRuntime \in BOOLEAN, spawnOk \in BOOLEAN :
          LET res == plugin_to_callback(n, jsonOk, args, hasRuntime, spawnOk)
          IN  regLast' = [NoCall EXCEPT !.op = "tool_call",
                                        !.ok = (res.ret = "Ok"),
                                        !.found = get(plugins, n),
                                        !.before = plugins,
                                        !.name = n,
                                        !.jsonOk = jsonOk,
                                        !.args = IF jsonOk THEN args ELSE NoArgs,
                                        !.err = IF res.ret = "Ok" THEN "None" ELSE "Other",
                                        !.msg = res.text,
                                        !.ran = res.ran,
                                        !.spawned = res.spawned]
    /\ UNCHANGED <<granted_permissions, plugins, regCalls>>
    /\ UNCHANGED exceptReg

RegistryNext == Register \/ Get \/ Execute \/ ToolCall

(***************************************************************************)
(* Vector stores (nucleus-core/src/rag/store.rs, lancedb_store.rs)         *)
(***************************************************************************)

\* Most add calls in one run of the model.
MaxAdds == 3

\* Largest top_k asked for.
MaxTopK == 2

\* LanceDbStore.vector_size, the dimension the store was created with.
vector_size == 2

DocIds == {"a", "b", "c"}

\* Position of an id in the ascending order of ids.
IdRank(id) == CASE id = "a" -> 1 [] id = "b" -> 2 [] id = "c" -> 3

Sources == {"s1", "s2"}

\* The indexer names a chunk "{source}#{offset}": "a" and "b" are chunks of
\* s1, "c" is a chunk of s2.
SourceOf(id) == IF id = "c" THEN "s2" ELSE "s1"

\* Embeddings of documents: two of the store's dimension, one a unit vector
\* and one not, and a shorter one.
Embeddings == {<<1, 0>>, <<1, 1>>, <<1>>}

\* Embeddings of queries.
Queries == {<<1, 0>>, <<1, 1>>}

Documents ==
    {d \in [id : DocIds, source : Sources, embedding : Embeddings] :
        d.source = SourceOf(d.id)}

\* f32::MANTISSA_DIGITS: the significand of an f32 has 24 bits.
mantissa_bits == 24

\* 2^23 and 2^24: the significands of the f32 values other than zero are
\* the integers from Hidden up to, not including, Limit.
Hidden == 2 ^ (mantissa_bits - 1)

Limit == 2 ^ mantissa_bits

\* An f32: zero, or sign * man * 2^(exp - 23) with Hidden <= man < Limit.
\* (Subnormals, infinities and NaN do not arise from the small integers the
\* model's vectors are made of.)
F32(sign, man, exp) == [sign |-> sign, man |-> man, exp |-> exp]

F32Zero == F32(1, 0, 0 - mantissa_bits)

F32One == F32(1, Hidden, 0)

RECURSIVE Log2(_)
\* The position of the leading bit of n >= 1.
Log2(n) == IF n < 2 THEN 0 ELSE 1 + Log2(n \div 2)

\* Round to nearest, ties to even: man is the truncated significand, rest
\* what was cut off and half the weight of half a unit in the last place.
f32_round(sign, man, exp, rest, half) ==
    LET up == rest > half \/ (rest = half /\ man % 2 = 1)
        m  == IF up THEN man + 1 ELSE man
    IN  IF m = Limit THEN F32(sign, Hidden, exp + 1) ELSE F32(sign, m, exp)

\* An integer of magnitude below 2^24 as the f32 that is equal to it.
f32_from_int(n) ==
    IF n = 0 THEN F32Zero
    ELSE LET mag == IF n < 0 THEN 0 - n ELSE n
             e == Log2(mag)
         IN  F32(IF n < 0 THEN -1 ELSE 1, mag * 2 ^ (mantissa_bits - 1 - e), e)

RECURSIVE SqrtDigits(_, _, _)
\* Digit-by-digit square root: root * root + rem is the radicand so far;
\* each step appends two zero bits to the radicand and one bit to the root.
SqrtDigits(root, rem, steps) ==
    IF steps = 0 THEN [root |-> root, rem |-> rem]
    ELSE IF 4 * rem >= 4 * root + 1
         THEN SqrtDigits(2 * root + 1, 4 * rem - (4 * root + 1), steps - 1)
         ELSE SqrtDigits(2 * root, 4 * rem, steps - 1)

\* f32::sqrt of an f32 that is an integer n >= 0: the correctly rounded root.
f32_sqrt(n) ==
    IF n = 0 THEN F32Zero
    ELSE LET r0 == CHOOSE r \in 1..n : r * r <= n /\ n < (r + 1) * (r + 1)
             e  == Log2(r0)
             d  == SqrtDigits(r0, n - r0 * r0, mantissa_bits - 1 - e)
         IN  \* the root lies above d.root + 1/2 exactly when rem > root,
             \* and never on it
             f32_round(1, d.root, e, IF d.rem > d.root THEN 2 ELSE 0, 1)

\* x * y for f32 values other than zero.  The 48-bit product of the
\* significands is formed from their 12-bit halves as hi * 2^24 + lo.
f32_mul(x, y) ==
    LET B   == 2 ^ (mantissa_bits \div 2)
        x1  == x.man \div B
        x0  == x.man % B
        y1  == y.man \div B
        y0  == y.man % B
        mid == x1 * y0 + x0 * y1
        low == x0 * y0 + (mid % B) * B
        lo  == low % Limit
        hi  == x1 * y1 + mid \div B + low \div Limit
        sg  == x.sign * y.sign
    IN  IF hi >= Hidden
        THEN f32_round(sg, hi, x.exp + y.exp + 1, lo, Hidden)
        ELSE f32_round(sg, 2 * hi + lo \div Hidden, x.exp + y.exp,
                       2 * (lo % Hidden), Hidden)

RECURSIVE DivDigits(_, _, _, _)
\* Long division, one quotient bit a step: quot * den + rem is the
\* numerator so far.
DivDigits(quot, rem, den, steps) ==
    IF steps = 0 THEN [quot |-> quot, rem |-> rem]
    ELSE IF 2 * rem >= den
         THEN DivDigits(2 * quot + 1, 2 * rem - den, den, steps - 1)
         ELSE DivDigits(2 * quot, 2 * rem, den, steps - 1)

\* x / y for an f32 y other than zero.
f32_div(x, y) ==
    IF x.man = 0 THEN F32Zero
    ELSE LET sg == x.sign * y.sign IN
         IF x.man >= y.man
         THEN LET d == DivDigits(1, x.man - y.man, y.man, mantissa_bits - 1)
              IN  f32_round(sg, d.quot, x.exp - y.exp, 2 * d.rem, y.man)
         ELSE LET d == DivDigits(0, x.man, y.man, mantissa_bits)
              IN  f32_round(sg, d.quot, x.exp - y.exp - 1, 2 * d.rem, y.man)

\* Magnitudes compare by exponent, then by significand; zero is below all.
F32MagLess(x, y) == x.exp < y.exp \/ (x.exp = y.exp /\ x.man < y.man)

\* a.score < b.score, as partial_cmp orders two f32 values.
ScoreLess(x, y) ==
    IF x.sign # y.sign THEN x.sign < y.sign
    ELSE IF x.sign = 1 THEN F32MagLess(x, y)
    ELSE F32MagLess(y, x)

ScoreEq(x, y) == x = y

RECURSIVE DotPrefix(_, _, _)
DotPrefix(a, b, n) ==
    IF n = 0 THEN 0 ELSE DotPrefix(a, b, n - 1) + a[n] * b[n]

\* a.iter().zip(b).map(|(x, y)| x * y).sum()
Dot(a, b) == DotPrefix(a, b, Len(a))

\* cosine_similarity with vectors of different lengths taken as identical.
cosine_similarity_mismatch_as_one(a, b) ==
    IF Len(a) # Len(b)
    THEN F32One
    ELSE LET magnitude_a == f32_sqrt(Dot(a, a))
             magnitude_b == f32_sqrt(Dot(b, b))
         IN  IF magnitude_a = F32Zero \/ magnitude_b = F32Zero
             THEN F32One
             ELSE f32_div(f32_from_int(Dot(a, b)),
                          f32_mul(magnitude_a, magnitude_b))

\* cosine_similarity: 0.0 for vectors of different lengths or of magnitude
\* zero, else dot_product / (magnitude_a * magnitude_b), every operation
\* rounded to f32.  The components are small integers, so the products and
\* their sums are integers an f32 holds exactly; the square roots, their
\* product and the quotient are where rounding happens.
cosine_similarity(a, b) ==
    IF Len(a) # Len(b)
    THEN F32Zero
    ELSE LET magnitude_a == f32_sqrt(Dot(a, a))
             magnitude_b == f32_sqrt(Dot(b, b))
         IN  IF magnitude_a = F32Zero \/ magnitude_b = F32Zero
             THEN F32Zero
             ELSE f32_div(f32_from_int(Dot(a, b)),
                          f32_mul(magnitude_a, magnitude_b))

\* cosine_similarity over the query and document vectors of the model,
\* worked out once.
cosine_of == [q \in Queries, e \in Embeddings |-> cosine_similarity(q, e)]

SearchResult(doc, score) == [document |-> doc, score |-> score]

\* The slice is left in the order it came in.
keep_order(rs) == rs

RECURSIVE InsertAfterNotLess(_, _)
\* r goes in front of the first element with a score below its own.
InsertAfterNotLess(sorted, r) ==
    IF sorted = <<>>
    THEN <<r>>
    ELSE IF ScoreLess(Head(sorted).score, r.score)
         THEN <<r>> \o sorted
         ELSE <<Head(sorted)>> \o InsertAfterNotLess(Tail(sorted), r)

RECURSIVE SortPrefix(_, _)
SortPrefix(rs, n) ==
    IF n = 0 THEN <<>> ELSE InsertAfterNotLess(SortPrefix(rs, n - 1), rs[n])

\* results.sort_by(|a, b| b.score.partial_cmp(&a.score).unwrap()): a stable
\* sort by score, highest first; equal scores stay in the order they had.
sort_by_score_desc(rs) == SortPrefix(rs, Len(rs))

take_all(rs, n) == rs

\* Iterator::take
take(rs, n) == SubSeq(rs, 1, IF n < Len(rs) THEN n ELSE Len(rs))

\* VectorStore::add of the in-memory store
add_replacing_id(docs, document) ==
    IF \E i \in DOMAIN docs : docs[i].id = document.id
    THEN [i \in DOMAIN docs |->
             IF docs[i].id = document.id THEN document ELSE docs[i]]
    ELSE Append(docs, document)

add(docs, document) == Append(docs, document)

\* VectorStore::search of the in-memory store
search(docs, query_embedding, top_k) ==
    take(sort_by_score_desc(
             [i \in DOMAIN docs |->
                 SearchResult(docs[i],
                              cosine_of[query_embedding,
                                        docs[i].embedding])]),
         top_k)

\* VectorStore::count
count(docs) == Len(docs)

\* LanceDbStore::add, as (the rows afterwards, Ok or not).  The Arrow list
\* array built over the embedding has Len(embedding) \div vector_size rows;
\* the record batch wants one row in every column.
LanceDb_add(rows, document, backendOk) ==
    IF Len(document.embedding) \div vector_size # 1 \/ ~backendOk
    THEN [rows |-> rows, ok |-> FALSE]
    ELSE [rows |-> Append(rows,
                       [document EXCEPT
                           !.embedding = SubSeq(@, 1, vector_size)]),
          ok |-> TRUE]

\* The _distance column of a vector query: the squared L2 distance.
RECURSIVE L2Prefix(_, _, _)
L2Prefix(a, b, n) ==
    IF n = 0 THEN 0
    ELSE L2Prefix(a, b, n - 1) + (a[n] - b[n]) * (a[n] - b[n])

\* LanceDbStore::search: the nearest rows first, at most top_k of them, each
\* with score = 1.0 - distance and an empty embedding.
LanceDb_search(rows, query_embedding, top_k) ==
    LET scored == [i \in DOMAIN rows |->
                      SearchResult(
                          [rows[i] EXCEPT !.embedding = <<>>],
                          f32_from_int(1 - L2Prefix(query_embedding,
                                                    rows[i].embedding,
                                                    vector_size)))]
        nearest == SortPrefix(scored, Len(scored))
    IN  SubSeq(nearest, 1, IF top_k < Len(nearest) THEN top_k ELSE Len(nearest))

NoDocument == [id |-> "<none>", source |-> "<none>", embedding |-> <<>>]

NoStoreCall == [op |-> "none", ok |-> TRUE, document |-> NoDocument,
                query |-> <<>>, top_k |-> 0, results |-> <<>>,
                n |-> 0, source |-> "<none>", before |-> <<>>,
                a |-> <<>>, b |-> <<>>, score |-> F32Zero]

StoreIdle ==
    /\ store_kind = "memory"
    /\ documents = <<>>
    /\ storeAdds = 0
    /\ storeLast = NoStoreCall

\* VectorStore::new() / LanceDbStore::new over a table just created
StoreInit ==
    /\ store_kind \in {"memory", "lancedb"}
    /\ documents = <<>>
    /\ storeAdds = 0
    /\ storeLast = NoStoreCall

\* A call of add(document).
StoreAdd ==
    /\ storeAdds < MaxAdds
    /\ \E document \in Documents, backendOk \in BOOLEAN :
          LET res == IF store_kind = "memory"
                     THEN [rows |-> add(documents, document), ok |-> TRUE]
                     ELSE LanceDb_add(documents, document, backendOk)
          IN  /\ documents' = res.rows
              /\ storeLast' = [NoStoreCall EXCEPT !.op = "add",
                                                  !.ok = res.ok,
                                                  !.document = document,
                                                  !.before = documents]
    /\ storeAdds' = storeAdds + 1
    /\ UNCHANGED store_kind
    /\ UNCHANGED exceptStore

\* A call of search; top_k is the argument of the in-memory store and
\* config.top_k of the LanceDB store.
StoreSearch ==
    /\ \E query \in Queries, top_k \in 0 .. MaxTopK, backendOk \in BOOLEAN :
          LET ok == store_kind = "memory" \/ backendOk
              rs == IF store_kind = "memory"
                    THEN search(documents, query, top_k)
                    ELSE LanceDb_search(documents, query, top_k)
          IN  storeLast' = [NoStoreCall EXCEPT !.op = "search",
                                               !.ok = ok,
                                               !.query = query,
                                               !.top_k = top_k,
                                               !.results = IF ok THEN rs ELSE <<>>,
                                               !.before = documents]
    /\ UNCHANGED <<store_kind, documents, storeAdds>>
    /\ UNCHANGED exceptStore

\* A call of count().
StoreCount ==
    /\ \E backendOk \in BOOLEAN :
          LET ok == store_kind = "memory" \/ backendOk
          IN  storeLast' = [NoStoreCall EXCEPT !.op = "count",
                                               !.ok = ok,
                                               !.n = IF ok THEN count(documents) ELSE 0,
                                               !.before = documents]
    /\ UNCHANGED <<store_kind, documents, storeAdds>>
    /\ UNCHANGED exceptStore

\* A call of clear(): the in-memory store empties its vector; the LanceDB
\* store bails out.
StoreClear ==
    /\ documents' = IF store_kind = "memory" THEN <<>> ELSE documents
    /\ storeLast' = [NoStoreCall EXCEPT !.op = "clear",
                                        !.ok = (store_kind = "memory"),
                                        !.before = documents]
    /\ UNCHANGED <<store_kind, storeAdds>>
    /\ UNCHANGED exceptStore

\* A call of get_indexed_paths() on the LanceDB store: bails out.
StoreGetIndexedPaths ==
    /\ store_kind = "lancedb"
    /\ storeLast' = [NoStoreCall EXCEPT !.op = "get_indexed_paths",
                                        !.ok = FALSE,
                                        !.before = documents]
    /\ UNCHANGED <<store_kind, documents, storeAdds>>
    /\ UNCHANGED exceptStore

\* A call of remove_by_source(source_path) on the LanceDB store: bails out.
StoreRemoveBySource ==
    /\ store_kind = "lancedb"
    /\ \E source \in Sources :
          storeLast' = [NoStoreCall EXCEPT !.op = "remove_by_source",
                                           !.ok = FALSE,
                                           !.source = source,
                                           !.before = documents]
    /\ UNCHANGED <<store_kind, documents, storeAdds>>
    /\ UNCHANGED exceptStore

\* Vectors handed to cosine_similarity: empty, zero, unit, opposite,
\* diagonal, and of another length.
CosineInputs ==
    {<<>>, <<0, 0>>, <<1, 0>>, <<0, 1>>, <<-1, 0>>, <<1, 1>>, <<1>>, <<0>>}

\* A call of cosine_similarity(a, b).  The function reads nothing of the
\* store, so the model calls it on the in-memory store as constructed.
StoreCosine ==
    /\ store_kind = "memory"
    /\ storeAdds = 0
    /\ \E a \in CosineInputs, b \in CosineInputs :
          storeLast' = [NoStoreCall EXCEPT !.op = "cosine_similarity",
                                           !.a = a,
                                           !.b = b,
                                           !.score = cosine_similarity(a, b),
                                           !.before = documents]
    /\ UNCHANGED <<store_kind, documents, storeAdds>>
    /\ UNCHANGED exceptStore

StoreNext ==
    \/ StoreCosine
    \/ StoreAdd
    \/ StoreSearch
    \/ StoreCount
    \/ StoreClear
    \/ StoreGetIndexedPaths
    \/ StoreRemoveBySource

(***************************************************************************)
(* The in-memory VectorStore used from several threads                     *)
(* (documents: Arc<RwLock<Vec<Document>>>, nucleus-core/src/rag/store.rs)  *)
(***************************************************************************)

\* Most add calls in one run of the model.
MaxSharedAdds == 2

Adders == {"w1", "w2"}

Readers == {"r1", "r2"}

NoThread == "<none>"

\* An entry of the Vec: complete is FALSE while push is writing it.
Entry(id, complete) == [id |-> id, complete |-> complete]

NoRead == [op |-> "none", docs |-> <<>>]

\* RwLock::read: granted whatever the lock's state.
read_granted_always(writer, readers) == TRUE

\* RwLock::read: granted while no thread holds the lock for writing.
read_granted(writer, readers) == writer = NoThread

\* RwLock::write: granted while no thread holds the lock at all.
write_granted(writer, readers) == writer = NoThread /\ readers = {}

RwIdle ==
    /\ lock_writer = NoThread
    /\ lock_readers = {}
    /\ shared_docs = <<>>
    /\ adderPc = [t \in Adders |-> "idle"]
    /\ readerPc = [t \in Readers |-> "idle"]
    /\ readerStart = [t \in Readers |-> 0]
    /\ readerSeen = [t \in Readers |-> NoRead]
    /\ addsStarted = 0
    /\ addsReturned = 0

\* add: self.documents.write().unwrap()
AddLock(t) ==
    /\ adderPc[t] = "idle"
    /\ addsStarted < MaxSharedAdds
    /\ write_granted(lock_writer, lock_readers)
    /\ lock_writer' = t
    /\ adderPc' = [adderPc EXCEPT ![t] = "locked"]
    /\ addsStarted' = addsStarted + 1
    /\ UNCHANGED <<lock_readers, shared_docs, readerPc, readerStart,
                   readerSeen, addsReturned>>
    /\ UNCHANGED exceptRw

\* add: docs.push(document), the slot is taken and being filled
AddPushBegin(t) ==
    /\ adderPc[t] = "locked"
    /\ shared_docs' = Append(shared_docs, Entry(addsStarted, FALSE))
    /\ adderPc' = [adderPc EXCEPT ![t] = "pushing"]
    /\ UNCHANGED <<lock_writer, lock_readers, readerPc, readerStart,
                   readerSeen, addsStarted, addsReturned>>
    /\ UNCHANGED exceptRw

\* add: docs.push(document), the document is in place
AddPushEnd(t) ==
    /\ adderPc[t] = "pushing"
    /\ shared_docs' = [shared_docs EXCEPT ![Len(shared_docs)].complete = TRUE]
    /\ adderPc' = [adderPc EXCEPT ![t] = "pushed"]
    /\ UNCHANGED <<lock_writer, lock_readers, readerPc, readerStart,
                   readerSeen, addsStarted, addsReturned>>
    /\ UNCHANGED exceptRw

\* add: the guard is dropped and add returns
AddReturn(t) ==
    /\ adderPc[t] = "pushed"
    /\ lock_writer' = IF lock_writer = t THEN NoThread ELSE lock_writer
    /\ adderPc' = [adderPc EXCEPT ![t] = "idle"]
    /\ addsReturned' = addsReturned + 1
    /\ UNCHANGED <<lock_readers, shared_docs, readerPc, readerStart,
                   readerSeen, addsStarted>>
    /\ UNCHANGED exceptRw

\* search or count is called
ReadCall(t) ==
    /\ readerPc[t] = "idle"
    /\ readerPc' = [readerPc EXCEPT ![t] = "called"]
    /\ readerStart' = [readerStart EXCEPT ![t] = addsReturned]
    /\ readerSeen' = [readerSeen EXCEPT ![t] = NoRead]
    /\ UNCHANGED <<lock_writer, lock_readers, shared_docs, adderPc,
                   addsStarted, addsReturned>>
    /\ UNCHANGED exceptRw

\* search / count: self.documents.read().unwrap()
ReadLock(t) ==
    /\ readerPc[t] = "called"
    /\ read_granted(lock_writer, lock_readers)
    /\ lock_readers' = lock_readers \cup {t}
    /\ readerPc' = [readerPc EXCEPT ![t] = "locked"]
    /\ UNCHANGED <<lock_writer, shared_docs, adderPc, readerStart,
                   readerSeen, addsStarted, addsReturned>>
    /\ UNCHANGED exceptRw

\* search: docs.iter() ... collect();  count: docs.len(); then the guard is
\* dropped and the call returns
ReadReturn(t) ==
    /\ readerPc[t] = "locked"
    /\ \E op \in {"search", "count"} :
          readerSeen' = [readerSeen EXCEPT ![t] = [op |-> op, docs |-> shared_docs]]
    /\ lock_readers' = lock_readers \ {t}
    /\ readerPc' = [readerPc EXCEPT ![t] = "idle"]
    /\ UNCHANGED <<lock_writer, shared_docs, adderPc, readerStart,
                   addsStarted, addsReturned>>
    /\ UNCHANGED exceptRw

RwNext ==
    \/ \E t \in Adders : AddLock(t)
    \/ \E t \in Adders : AddPushBegin(t)
    \/ \E t \in Adders : AddPushEnd(t)
    \/ \E t \in Adders : AddReturn(t)
    \/ \E t \in Readers : ReadCall(t)
    \/ \E t \in Readers : ReadLock(t)
    \/ \E t \in Readers : ReadReturn(t)

(***************************************************************************)
(* Token selection in CoreMLProvider::chat                                 *)
(* (nucleus-core/src/provider/coreml/provider.rs)                          *)
(***************************************************************************)

\* Steps of the generation loop taken in one run of the model.
MaxGenSteps == 3

\* The two chat calls.
Calls == {1, 2}

\* request.temperature: zero, or above zero.
Temperatures == {0, 1}

\* What predict_stateful can write to logits, one value per token id
\* 0 .. VocabSize - 1: all equal, or the largest at token id 0, or the
\* largest at token id 1.
LogitVectors ==
    {[t \in 1 .. VocabSize |-> IF t = f THEN 1 ELSE 0] : f \in 0 .. 2}

\* fold(f32::max): the largest entry.
MaxLogit(logits) ==
    CHOOSE m \in {logits[i] : i \in DOMAIN logits} :
        \A i \in DOMAIN logits : logits[i] <= m

\* argmax: max_by keeps the last of several equal maxima; the token id is
\* the index counted from 0.
argmax(logits) ==
    (CHOOSE i \in DOMAIN logits :
        /\ logits[i] = MaxLogit(logits)
        /\ \A j \in DOMAIN logits : logits[j] = MaxLogit(logits) => j <= i) - 1

\* sample_with_temperature: every token id has a positive probability, and
\* the one returned depends on a seed hashed from the clock.
sample_with_temperature(logits) == {i - 1 : i \in DOMAIN logits}

\* The values next_token_id can take, sampling whatever the temperature.
next_token_id_sampled(logits, temp) == sample_with_temperature(logits)

\* The values next_token_id can take.
next_token_id(logits, temp) ==
    IF temp > 0
    THEN sample_with_temperature(logits)
    ELSE {argmax(logits)}

GenIdle ==
    /\ temperature = 0
    /\ logits_at = [i \in 1 .. MaxGenSteps |-> [t \in 1 .. VocabSize |-> 0]]
    /\ chosen = [c \in Calls |-> <<>>]
    /\ genPc = [c \in Calls |-> "loop"]

\* Two calls with the same request, on providers in the same state.
GenInit ==
    /\ temperature \in Temperatures
    /\ logits_at \in [1 .. MaxGenSteps -> LogitVectors]
    /\ chosen = [c \in Calls |-> <<>>]
    /\ genPc = [c \in Calls |-> "loop"]

\* One iteration of the loop of call c; the second call is made when the
\* first has returned.
GenStep(c) ==
    /\ genPc[c] = "loop"
    /\ c = 1 \/ genPc[1] = "ok"
    /\ Len(chosen[c]) < MaxGenSteps
    /\ \E tok \in next_token_id(logits_at[Len(chosen[c]) + 1], temperature) :
          /\ chosen' = [chosen EXCEPT ![c] = Append(@, tok)]
          /\ genPc' = [genPc EXCEPT ![c] =
                          IF IsEosOrInvalid(tok) THEN "ok" ELSE "loop"]
    /\ UNCHANGED <<temperature, logits_at>>
    /\ UNCHANGED exceptGen

\* The loop of call c has run its steps.
GenLoopEnd(c) ==
    /\ genPc[c] = "loop"
    /\ Len(chosen[c]) >= MaxGenSteps
    /\ genPc' = [genPc EXCEPT ![c] = "ok"]
    /\ UNCHANGED <<temperature, logits_at, chosen>>
    /\ UNCHANGED exceptGen

GenNext ==
    \/ \E c \in Calls : GenStep(c)
    \/ \E c \in Calls : GenLoopEnd(c)

(***************************************************************************)
(* Vector store persistence (rag/persistence.rs, rag/store.rs)             *)
(***************************************************************************)

\* Longest document list the store holds.
MaxPersistDocs == 2

PersistIds == {"a", "b"}

\* An f32 component of an embedding: a finite value, or one that is not
\* (infinity, NaN).
Finite(v) == [class |-> "finite", v |-> v]

NonFinite == [class |-> "nonfinite", v |-> 0]

PersistEmbeddings == {<<Finite(1), Finite(0)>>, <<Finite(0), NonFinite>>}

PersistDocuments ==
    [id : PersistIds, content : {"text"}, embedding : PersistEmbeddings]

\* serde_json writes a finite f32 as a number and any other f32 as null.
json_f32(x) ==
    IF x.class = "finite" THEN [json |-> "number", v |-> x.v]
    ELSE [json |-> "null", v |-> 0]

json_document(d) ==
    [id |-> d.id, content |-> d.content,
     embedding |-> [i \in 1..Len(d.embedding) |-> json_f32(d.embedding[i])]]

\* serde_json::to_string_pretty(&VectorStoreSnapshot::new(documents)).
to_string_pretty(docs) ==
    [kind |-> "json",
     documents |-> [i \in 1..Len(docs) |-> json_document(docs[i])],
     version |-> 1]

\* The file at the path: absent, not a snapshot, or a written snapshot.
NoFile == [kind |-> "absent", documents |-> <<>>, version |-> 0]

CorruptFile == [kind |-> "corrupt", documents |-> <<>>, version |-> 0]

\* Deserializing an f32 accepts a JSON number and nothing else.
parses_as_f32(tok) == tok.json = "number"

parses_as_document(jd) ==
    \A i \in 1..Len(jd.embedding) : parses_as_f32(jd.embedding[i])

parse_document(jd) ==
    [id |-> jd.id, content |-> jd.content,
     embedding |-> [i \in 1..Len(jd.embedding) |-> Finite(jd.embedding[i].v)]]

PersistResult(ok, err, docs, file) ==
    [ok |-> ok, err |-> err, docs |-> docs, file |-> file]

\* serde_json::from_str::<VectorStoreSnapshot>(&contents)
from_str(contents) ==
    IF contents.kind # "json"
    THEN PersistResult(FALSE, "Serialization", <<>>, contents)
    ELSE IF \E i \in 1..Len(contents.documents) :
                ~parses_as_document(contents.documents[i])
    THEN PersistResult(FALSE, "Serialization", <<>>, contents)
    ELSE PersistResult(TRUE, "none",
             [i \in 1..Len(contents.documents) |->
                 parse_document(contents.documents[i])], contents)

\* How the file system answers one call.
SaveIo == {"ok", "mkdir_fails", "write_fails", "write_fails_partial"}

LoadIo == {"ok", "read_fails"}

\* save_to_disk(documents, path): create_dir_all(parent)?, serialize, write?.
save_to_disk(docs, file, io) ==
    CASE io = "mkdir_fails" -> PersistResult(FALSE, "Io", <<>>, file)
      [] io = "write_fails" -> PersistResult(FALSE, "Io", <<>>, file)
      [] io = "write_fails_partial" ->
            PersistResult(FALSE, "Io", <<>>, CorruptFile)
      [] io = "ok" -> PersistResult(TRUE, "none", <<>>, to_string_pretty(docs))

load_from_disk_missing_is_error(file, io) ==
    IF file.kind = "absent" \/ io = "read_fails"
    THEN PersistResult(FALSE, "Io", <<>>, file)
    ELSE from_str(file)

\* load_from_disk(path): a path without a file gives the empty list.
load_from_disk(file, io) ==
    IF file.kind = "absent" THEN PersistResult(TRUE, "none", <<>>, file)
    ELSE IF io = "read_fails" THEN PersistResult(FALSE, "Io", <<>>, file)
    ELSE from_str(file)

NoSave == [valid |-> FALSE, docs |-> <<>>]

PersistCall(op, ok, err, loaded, io, prev, before) ==
    [op |-> op, ok |-> ok, err |-> err, loaded |-> loaded, io |-> io,
     prev |-> prev, before |-> before]

NoPersistCall == PersistCall("none", TRUE, "none", 0, "ok", "none", <<>>)

load_store_clears_on_error(docs, r) == r.docs

\* VectorStore::load after load_from_disk: `?` returns on an error before
\* the store is touched; otherwise *store = docs.
load_store(docs, r) == IF r.ok THEN r.docs ELSE docs

\* What a call is to the call after it.
PersistCallTag == IF persistLast.ok THEN persistLast.op ELSE "failed"

PersistIdle ==
    /\ persistence_path = FALSE
    /\ disk_file = NoFile
    /\ persist_documents = <<>>
    /\ last_saved = NoSave
    /\ persistLast = NoPersistCall

\* VectorStore::new() or VectorStore::with_persistence(storage_path), with
\* whatever is at the path.
PersistInit ==
    /\ persistence_path \in BOOLEAN
    /\ disk_file \in {NoFile, CorruptFile}
    /\ persist_documents = <<>>
    /\ last_saved = NoSave
    /\ persistLast = NoPersistCall

\* VectorStore::add
PersistAdd ==
    /\ Len(persist_documents) < MaxPersistDocs
    /\ \E d \in PersistDocuments :
          persist_documents' = Append(persist_documents, d)
    /\ persistLast' =
          PersistCall("add", TRUE, "none", 0, "ok", PersistCallTag, <<>>)
    /\ UNCHANGED <<persistence_path, disk_file, last_saved>>
    /\ UNCHANGED exceptPersist

\* VectorStore::save
PersistSave ==
    /\ \E io \in SaveIo :
          IF persistence_path
          THEN LET r == save_to_disk(persist_documents, disk_file, io) IN
               /\ disk_file' = r.file
               /\ last_saved' =
                     IF r.ok THEN [valid |-> TRUE, docs |-> persist_documents]
                     ELSE IF r.file = disk_file THEN last_saved
                     ELSE NoSave
               /\ persistLast' =
                     PersistCall("save", r.ok, r.err, 0, io, PersistCallTag,
                                 <<>>)
          ELSE /\ io = "ok"
               /\ persistLast' =
                     PersistCall("save", TRUE, "none", 0, io, PersistCallTag,
                                 <<>>)
               /\ UNCHANGED <<disk_file, last_saved>>
    /\ UNCHANGED <<persistence_path, persist_documents>>
    /\ UNCHANGED exceptPersist

\* VectorStore::load
PersistLoad ==
    /\ \E io \in LoadIo :
          IF persistence_path
          THEN LET r == load_from_disk(disk_file, io) IN
               /\ persist_documents' = load_store(persist_documents, r)
               /\ persistLast' =
                     PersistCall("load", r.ok, r.err,
                                 IF r.ok THEN Len(r.docs) ELSE 0, io,
                                 PersistCallTag, persist_documents)
          ELSE /\ io = "ok"
               /\ persistLast' =
                     PersistCall("load", TRUE, "none", 0, io, PersistCallTag,
                                 persist_documents)
               /\ UNCHANGED persist_documents
    /\ UNCHANGED <<persistence_path, disk_file, last_saved>>
    /\ UNCHANGED exceptPersist

PersistNext ==
    \/ PersistAdd
    \/ PersistSave
    \/ PersistLoad

(***************************************************************************)
(* Config::load and the defaults (nucleus-core config.rs)                  *)
(***************************************************************************)

\* Largest chunk_size and chunk_overlap a configuration file carries.
MaxChunkBytes == 2

default_chunk_size == 512

default_chunk_overlap == 50

\* EmbeddingModel::default().embedding_dim: the model table is outside the
\* files at hand; the dimension is taken to be the indexer's default chunk
\* size.
default_embedding_dim == default_chunk_size

Permission(read, write, command) ==
    [read |-> read, write |-> write, command |-> command]

Permission_default == Permission(TRUE, TRUE, TRUE)

IndexerConfig(chunk_size, chunk_overlap) ==
    [chunk_size |-> chunk_size, chunk_overlap |-> chunk_overlap]

IndexerConfig_default == IndexerConfig(default_chunk_size, default_chunk_overlap)

\* RagConfig::default().indexer
RagConfig_default_indexer ==
    IndexerConfig(default_embedding_dim, default_chunk_overlap)

Config(indexer, permission) == [indexer |-> indexer, permission |-> permission]

Config_default == Config(RagConfig_default_indexer, Permission_default)

\* The `rag.indexer` key of a file, when present.
IndexerKeys ==
    [present : {TRUE}, chunk_size : 0..MaxChunkBytes,
     chunk_overlap : 0..MaxChunkBytes]

NoIndexerKey == [present |-> FALSE, chunk_size |-> 0, chunk_overlap |-> 0]

\* The `permission` key of a file, when present.
PermissionKeys ==
    [present : {TRUE}, read : BOOLEAN, write : BOOLEAN, command : BOOLEAN]

NoPermissionKey ==
    [present |-> FALSE, read |-> FALSE, write |-> FALSE, command |-> FALSE]

YamlFile(kind, indexer, permission) ==
    [kind |-> kind, indexer |-> indexer, permission |-> permission]

NoConfigFile == YamlFile("absent", NoIndexerKey, NoPermissionKey)

\* A file that is not YAML of a Config (a required key is missing, ...).
BadConfigFile == YamlFile("invalid", NoIndexerKey, NoPermissionKey)

ConfigFiles ==
    {NoConfigFile, BadConfigFile} \cup
    {YamlFile("yaml", i, p) :
        i \in IndexerKeys \cup {NoIndexerKey},
        p \in PermissionKeys \cup {NoPermissionKey}}

ConfigResult(ok, err, config) == [ok |-> ok, err |-> err, config |-> config]

\* serde_yaml::from_str::<Config>(&contents): `indexer` is #[serde(default)],
\* `permission` is #[serde(skip)], so it is never read from the file.
Config_from_str(contents) ==
    IF contents.kind # "yaml" THEN ConfigResult(FALSE, "Parse", Config_default)
    ELSE ConfigResult(TRUE, "none",
             Config(IF contents.indexer.present
                    THEN IndexerConfig(contents.indexer.chunk_size,
                                       contents.indexer.chunk_overlap)
                    ELSE IndexerConfig_default,
                    Permission_default))

\* Config::load(path)
Config_load(file, io) ==
    IF file.kind = "absent" \/ io = "read_fails"
    THEN ConfigResult(FALSE, "FileRead", Config_default)
    ELSE LET parsed == Config_from_str(file) IN
         IF ~parsed.ok THEN parsed
         ELSE ConfigResult(TRUE, "none",
                  Config(parsed.config.indexer, Permission_default))

\* Config::load_or_default(): Self::load("config.yaml").unwrap_or_default()
Config_load_or_default(file, io) ==
    LET r == Config_load(file, io) IN
    IF r.ok THEN r ELSE ConfigResult(TRUE, "none", Config_default)

ConfigCall(op, res) ==
    [op |-> op, ok |-> res.ok, err |-> res.err, config |-> res.config]

NoConfigCall == ConfigCall("none", ConfigResult(TRUE, "none", Config_default))

ConfigIdle ==
    /\ cfg_file = NoConfigFile
    /\ cfgLast = NoConfigCall

ConfigInit ==
    /\ cfg_file \in ConfigFiles
    /\ cfgLast = NoConfigCall

ConfigLoad ==
    /\ \E io \in LoadIo :
          cfgLast' = ConfigCall("load", Config_load(cfg_file, io))
    /\ UNCHANGED cfg_file
    /\ UNCHANGED exceptCfg

ConfigLoadOrDefault ==
    /\ \E io \in LoadIo :
          cfgLast' =
              ConfigCall("load_or_default", Config_load_or_default(cfg_file, io))
    /\ UNCHANGED cfg_file
    /\ UNCHANGED exceptCfg

\* Config::new() / Config::default()
ConfigNew ==
    /\ cfgLast' = ConfigCall("new", ConfigResult(TRUE, "none", Config_default))
    /\ UNCHANGED cfg_file
    /\ UNCHANGED exceptCfg

ConfigNext ==
    \/ ConfigLoad
    \/ ConfigLoadOrDefault
    \/ ConfigNew

(***************************************************************************)
(* VectorStore::load running beside VectorStore::add (rag/store.rs)        *)
(***************************************************************************)

\* add calls made beside one load.
MaxRaceAdds == 2

LoaderThread == "loader"

\* The document the n-th add call adds.
RaceDocument(n) ==
    [id |-> n, content |-> "text", embedding |-> <<Finite(1), Finite(0)>>]

\* The file holds what a save of a one-document store wrote, or nothing, or
\* something that is no snapshot.
RaceFiles == {NoFile, CorruptFile, to_string_pretty(<<RaceDocument(0)>>)}

NoLoadResult == PersistResult(FALSE, "none", <<>>, NoFile)

\* The time from load starting to read the file to load returning.
LoadInProgress == loaderPc \in {"reading", "read", "locked"}

RaceIdle ==
    /\ race_path = FALSE
    /\ race_file = NoFile
    /\ race_writer = NoThread
    /\ race_docs = <<>>
    /\ raceAdderPc = [t \in Adders |-> "idle"]
    /\ loaderPc = "idle"
    /\ race_loaded = NoLoadResult
    /\ raceAdds = 0
    /\ returned_in_load = {}

\* A store built by new() or with_persistence(path), shared by the threads.
RaceInit ==
    /\ race_path \in BOOLEAN
    /\ race_file \in RaceFiles
    /\ race_writer = NoThread
    /\ race_docs = <<>>
    /\ raceAdderPc = [t \in Adders |-> "idle"]
    /\ loaderPc = "idle"
    /\ race_loaded = NoLoadResult
    /\ raceAdds = 0
    /\ returned_in_load = {}

\* add: self.documents.write().unwrap()
RaceAddLock(t) ==
    /\ raceAdderPc[t] = "idle"
    /\ raceAdds < MaxRaceAdds
    /\ write_granted(race_writer, {})
    /\ race_writer' = t
    /\ raceAdderPc' = [raceAdderPc EXCEPT ![t] = "locked"]
    /\ raceAdds' = raceAdds + 1
    /\ UNCHANGED <<race_path, race_file, race_docs, loaderPc, race_loaded,
                   returned_in_load>>
    /\ UNCHANGED exceptRace

\* add: docs.push(document), the guard is dropped and add returns
RaceAddReturn(t) ==
    /\ raceAdderPc[t] = "locked"
    /\ race_docs' = Append(race_docs, RaceDocument(raceAdds))
    /\ race_writer' = NoThread
    /\ raceAdderPc' = [raceAdderPc EXCEPT ![t] = "idle"]
    /\ returned_in_load' =
          IF LoadInProgress THEN returned_in_load \cup {raceAdds}
          ELSE returned_in_load
    /\ UNCHANGED <<race_path, race_file, loaderPc, race_loaded, raceAdds>>
    /\ UNCHANGED exceptRace

\* load is called: without a path it returns Ok(0); with one it calls
\* load_from_disk(path), which starts reading the file.
RaceLoadCall ==
    /\ loaderPc = "idle"
    /\ loaderPc' = IF race_path THEN "reading" ELSE "done"
    /\ UNCHANGED <<race_path, race_file, race_writer, race_docs, raceAdderPc,
                   race_loaded, raceAdds, returned_in_load>>
    /\ UNCHANGED exceptRace

\* load: load_from_disk(path).await? returns; an error ends load.
RaceLoadRead ==
    /\ loaderPc = "reading"
    /\ \E io \in LoadIo :
          LET r == load_from_disk(race_file, io) IN
          /\ race_loaded' = r
          /\ loaderPc' = IF r.ok THEN "read" ELSE "done"
    /\ UNCHANGED <<race_path, race_file, race_writer, race_docs, raceAdderPc,
                   raceAdds, returned_in_load>>
    /\ UNCHANGED exceptRace

\* load: self.documents.write().unwrap()
RaceLoadLock ==
    /\ loaderPc = "read"
    /\ write_granted(race_writer, {})
    /\ race_writer' = LoaderThread
    /\ loaderPc' = "locked"
    /\ UNCHANGED <<race_path, race_file, race_docs, raceAdderPc, race_loaded,
                   raceAdds, returned_in_load>>
    /\ UNCHANGED exceptRace

\* load: *store = docs; the guard is dropped and load returns Ok(count)
RaceLoadStore ==
    /\ loaderPc = "locked"
    /\ race_docs' = load_store(race_docs, race_loaded)
    /\ race_writer' = NoThread
    /\ loaderPc' = "done"
    /\ UNCHANGED <<race_path, race_file, raceAdderPc, race_loaded, raceAdds,
                   returned_in_load>>
    /\ UNCHANGED exceptRace

RaceNext ==
    \/ \E t \in Adders : RaceAddLock(t)
    \/ \E t \in Adders : RaceAddReturn(t)
    \/ RaceLoadCall
    \/ RaceLoadRead
    \/ RaceLoadLock
    \/ RaceLoadStore

(***************************************************************************)
(* The fallback tokenizer (nucleus-core/src/provider/coreml/provider.rs)   *)
(***************************************************************************)

\* Longest text encoded, in code points.
MaxTextLen == 2

\* simple_encode: .min(127_999)
max_code_point_id == 127999

\* simple_decode: id < 128_000
decode_limit == 128000

\* Code points of a text: 'A', the euro sign, the two around the limit, an
\* emoji, and the last code point.
CodePoints ==
    {65, 8364, max_code_point_id, decode_limit, 128512, 1114111}

Texts == UNION {[1 .. n -> CodePoints] : n \in 0 .. MaxTextLen}

Min(a, b) == IF a < b THEN a ELSE b

\* simple_encode: text.chars().map(|c| (c as u32).min(127_999)).collect()
simple_encode(text) ==
    [i \in 1 .. Len(text) |-> Min(text[i], max_code_point_id)]

\* char::from_u32: every u32 up to 0x10FFFF that is no surrogate.
char_from_u32(id) == id < 55296 \/ (id > 57343 /\ id <= 1114111)

\* simple_decode: the ids below 128000 that are code points, as a string.
simple_decode(tokens) ==
    SelectSeq(tokens, LAMBDA id : id < decode_limit /\ char_from_u32(id))

TokIdle ==
    /\ tok_text = <<>>
    /\ tok_ids = <<>>
    /\ tok_decoded = <<>>
    /\ tokPc = "idle"

TokInit ==
    /\ tok_text \in Texts
    /\ tok_ids = <<>>
    /\ tok_decoded = <<>>
    /\ tokPc = "text"

\* simple_encode(text)
TokEncode ==
    /\ tokPc = "text"
    /\ tok_ids' = simple_encode(tok_text)
    /\ tokPc' = "encoded"
    /\ UNCHANGED <<tok_text, tok_decoded>>
    /\ UNCHANGED exceptTok

\* simple_decode(&tokens)
TokDecode ==
    /\ tokPc = "encoded"
    /\ tok_decoded' = simple_decode(tok_ids)
    /\ tokPc' = "decoded"
    /\ UNCHANGED <<tok_text, tok_ids>>
    /\ UNCHANGED exceptTok

TokNext ==
    \/ TokEncode
    \/ TokDecode

(***************************************************************************)
(* Prompt assembly of the CoreML backend                                   *)
(* (nucleus-core/src/provider/coreml/provider.rs)                          *)
(***************************************************************************)

\* Longest message list formatted.
MaxMessages == 2

\* encode_without_tokenizer: the special token ids and the line feed.
BOS == 128000

START_HEADER == 128006

END_HEADER == 128007

EOT == 128009

LINE_FEED_TOKEN == 198

\* A prompt string is a sequence of characters and special-token markers
\* ("<|begin_of_text|>", ...).
Ch(c) == [k |-> "char", v |-> c]

Marker(name) == [k |-> name, v |-> 0]

Str(text) == [i \in 1 .. Len(text) |-> Ch(text[i])]

\* "\n\n"
TwoLineFeeds == <<Ch(10), Ch(10)>>

\* The code points of a role's name.
role_name(role) ==
    CASE role = "system" -> <<115, 121, 115, 116, 101, 109>>
      [] role = "user" -> <<117, 115, 101, 114>>
      [] role = "assistant" -> <<97, 115, 115, 105, 115, 116, 97, 110, 116>>
      [] OTHER -> <<116, 111, 111, 108>>

SupportedRoles == {"system", "user", "assistant"}

\* Message.context: None, or Some("7").
NoContext == [some |-> FALSE, text |-> <<>>]

SomeContext == [some |-> TRUE, text |-> <<55>>]

\* Messages with the content "42".
FmtMessages ==
    [role : SupportedRoles \cup {"tool"}, context : {NoContext, SomeContext},
     content : {<<52, 50>>}]

FmtMessageLists == UNION {[1 .. n -> FmtMessages] : n \in 0 .. MaxMessages}

FmtProviders == {"tokenizer", "fallback"}

FmtResult(ok, err, prompt, token_ids) ==
    [ok |-> ok, err |-> err, prompt |-> prompt, token_ids |-> token_ids]

NoFmtResult == FmtResult(FALSE, "none", <<>>, <<>>)

Header(role) ==
    <<Marker("start_header_id")>> \o Str(role_name(role))
        \o <<Marker("end_header_id")>> \o TwoLineFeeds

ContextText(message) ==
    IF message.context.some THEN Str(message.context.text) \o TwoLineFeeds
    ELSE <<>>

\* format_chat_prompt, tokenizer present: what one message adds to prompt.
prompt_block(message) ==
    CASE message.role = "system" ->
            <<Marker("begin_of_text")>> \o Header("system")
                \o ContextText(message) \o Str(message.content)
                \o <<Marker("eot_id")>>
      [] message.role = "user" ->
            Header("user") \o ContextText(message) \o Str(message.content)
                \o <<Marker("eot_id")>>
      [] OTHER ->
            Header("assistant") \o Str(message.content) \o <<Marker("eot_id")>>

\* encode_without_tokenizer: what one message adds to token_ids.
token_block(message) ==
    <<START_HEADER>> \o simple_encode(role_name(message.role))
        \o <<END_HEADER, LINE_FEED_TOKEN, LINE_FEED_TOKEN>>
        \o (IF message.context.some
            THEN simple_encode(message.context.text)
                     \o <<LINE_FEED_TOKEN, LINE_FEED_TOKEN>>
            ELSE <<>>)
        \o simple_encode(message.content) \o <<EOT>>

RECURSIVE Blocks(_, _, _)
\* The blocks of the messages from the i-th on, one after the other.
Blocks(block(_), messages, i) ==
    IF i > Len(messages) THEN <<>>
    ELSE block(messages[i]) \o Blocks(block, messages, i + 1)

\* encode_without_tokenizer(messages)
encode_without_tokenizer(messages) ==
    IF \E i \in DOMAIN messages : messages[i].role \notin SupportedRoles
    THEN FmtResult(FALSE, "Unsupported role", <<>>, <<>>)
    ELSE FmtResult(TRUE, "none", <<>>,
             <<BOS>> \o Blocks(token_block, messages, 1)
                 \o <<START_HEADER>> \o simple_encode(role_name("assistant"))
                 \o <<END_HEADER, LINE_FEED_TOKEN, LINE_FEED_TOKEN>>)

\* format_chat_prompt(messages); the ids the tokenizer gives the prompt
\* depend on its vocabulary file and are left out.
format_chat_prompt(has_tok, messages) ==
    IF ~has_tok THEN encode_without_tokenizer(messages)
    ELSE IF \E i \in DOMAIN messages : messages[i].role \notin SupportedRoles
    THEN FmtResult(FALSE, "Unsupported role", <<>>, <<>>)
    ELSE FmtResult(TRUE, "none",
             Blocks(prompt_block, messages, 1) \o Header("assistant"), <<>>)

FmtIdle ==
    /\ fmt_messages = <<>>
    /\ fmt_result = [p \in FmtProviders |-> NoFmtResult]

\* The same messages for a provider with a tokenizer and one without.
FmtInit ==
    /\ fmt_messages \in FmtMessageLists
    /\ fmt_result = [p \in FmtProviders |-> NoFmtResult]

\* format_chat_prompt(&request.messages) of provider p
FormatChatPrompt(p) ==
    /\ fmt_result[p] = NoFmtResult
    /\ fmt_result' =
          [fmt_result EXCEPT ![p] =
              format_chat_prompt(p = "tokenizer", fmt_messages)]
    /\ UNCHANGED fmt_messages
    /\ UNCHANGED exceptFmt

FmtNext == \E p \in FmtProviders : FormatChatPrompt(p)

(***************************************************************************)
(* Tools of the mistral.rs backend (nucleus-core/src/provider/mistralrs.rs)*)
(***************************************************************************)

\* Most ':' a model name has.
MaxColons == 2

\* A model name: whether it ends with ".gguf", how many ':' it has, and
\* whether a file exists at it.
ModelNames ==
    [ends_gguf : BOOLEAN, colons : 0 .. MaxColons, file_exists : BOOLEAN]

\* build_model: model_name.ends_with(".gguf") && Path::new(..).exists()
is_local_gguf(name) == name.ends_gguf /\ name.file_exists

\* build_model: model_name.contains(':') && model_name.ends_with(".gguf")
is_hf_gguf(name) == name.colons > 0 /\ name.ends_gguf

\* The builder build_model uses for a name.
builder_of(name) ==
    IF is_hf_gguf(name)
    THEN IF name.colons + 1 # 2 THEN "invalid" ELSE "GgufModelBuilder"
    ELSE IF is_local_gguf(name) THEN "GgufModelBuilder"
    ELSE "TextModelBuilder"

\* build_model: with_tool_callback is called in the TextModelBuilder branch.
tool_callbacks_of(name, registry) ==
    IF builder_of(name) = "TextModelBuilder" THEN registry ELSE {}

\* chat: set_tools(..) with a tool per plugin when get_count() > 0.
tools_of(registry) == IF Cardinality(registry) > 0 THEN registry ELSE {}

ToolIdle ==
    /\ model_name = [ends_gguf |-> FALSE, colons |-> 0, file_exists |-> FALSE]
    /\ tool_registry = {}
    /\ toolPc = "idle"
    /\ tool_callbacks = {}
    /\ advertised = {}
    /\ routed = "none"

\* A configuration and a registry, before MistralRsProvider::new.
ToolInit ==
    /\ model_name \in ModelNames
    /\ tool_registry \in SUBSET PluginNames
    /\ toolPc = "new"
    /\ tool_callbacks = {}
    /\ advertised = {}
    /\ routed = "none"

\* MistralRsProvider::new: build_model; the builder's build() succeeds or not.
BuildModel ==
    /\ toolPc = "new"
    /\ \E built \in BOOLEAN :
          IF builder_of(model_name) = "invalid" \/ ~built
          THEN /\ toolPc' = "failed"
               /\ UNCHANGED tool_callbacks
          ELSE /\ toolPc' = "ready"
               /\ tool_callbacks' = tool_callbacks_of(model_name, tool_registry)
    /\ UNCHANGED <<model_name, tool_registry, advertised, routed>>
    /\ UNCHANGED exceptTool

\* chat: the request is built and sent with the registry's tools.
ToolsChat ==
    /\ toolPc = "ready"
    /\ advertised' = tools_of(tool_registry)
    /\ routed' = "none"
    /\ UNCHANGED <<model_name, tool_registry, toolPc, tool_callbacks>>
    /\ UNCHANGED exceptTool

\* The runtime has the model call one of the request's tools: a tool with a
\* callback is run by it; any other call goes back in the response.
RuntimeToolCall ==
    /\ toolPc = "ready"
    /\ \E n \in advertised :
          routed' = IF n \in tool_callbacks THEN "plugin" ELSE "response"
    /\ UNCHANGED <<model_name, tool_registry, toolPc, tool_callbacks,
                   advertised>>
    /\ UNCHANGED exceptTool

ToolNext ==
    \/ BuildModel
    \/ ToolsChat
    \/ RuntimeToolCall

(***************************************************************************)
(* HttpTransport (nucleus-core/src/mcp/transport/http.rs)                  *)
(***************************************************************************)

\* Calls made on one transport.
MaxHttpCalls == 2

\* A JSON-RPC id: a JSON number, string or null.
JsonId(t, v) == [t |-> t, v |-> v]

NullId == JsonId("null", 0)

\* The ids a response can carry: those of the requests, "1", and null.
ResponseIds ==
    {JsonId("number", n) : n \in 1 .. MaxHttpCalls}
        \cup {JsonId("string", 1), NullId}

\* Option<String> session_id.
NoSession == [some |-> FALSE, v |-> "none"]

Session(v) == [some |-> TRUE, v |-> v]

\* The Mcp-Session-Id header of a response: absent, a readable value, or
\* bytes that to_str() rejects.
SessionHeader(present, readable, v) ==
    [present |-> present, readable |-> readable, v |-> v]

NoSessionHeader == SessionHeader(FALSE, FALSE, "none")

SessionHeaders ==
    {NoSessionHeader, SessionHeader(TRUE, TRUE, "s1"),
     SessionHeader(TRUE, TRUE, "s2"), SessionHeader(TRUE, FALSE, "none")}

\* What comes back for one POST: no connection, a status outside 2xx, or a
\* 2xx response with its headers and body.
Reply(net, header, ctype, body, id) ==
    [net |-> net, header |-> header, ctype |-> ctype, body |-> body, id |-> id]

NoReply == Reply("none", NoSessionHeader, "none", "none", NullId)

Replies ==
    {Reply("unreachable", NoSessionHeader, "none", "none", NullId)}
    \cup {Reply("status_error", h, "none", "none", NullId) : h \in SessionHeaders}
    \cup {Reply("ok", h, c, b, NullId) :
            h \in SessionHeaders, c \in {"json", "event-stream"},
            b \in {"empty", "malformed", "not_response"}}
    \cup {Reply("ok", h, c, b, i) :
            h \in SessionHeaders, c \in {"json", "event-stream"},
            b \in {"success", "error"}, i \in ResponseIds}

MessageKinds == {"request", "notification", "response"}

SendResult(ok, err, posted, carried, session, some) ==
    [ok |-> ok, err |-> err, posted |-> posted, carried |-> carried,
     session |-> session, some |-> some]

\* send: the header is read when it is there and to_str() accepts it.
session_after(session, header) ==
    IF header.present /\ header.readable THEN Session(header.v) ELSE session

\* send: the body of a 2xx response to a request.
parse_body(session, reply) ==
    IF reply.ctype = "event-stream" /\ reply.body = "empty"
    THEN SendResult(FALSE, "No JSON data found in streaming response", TRUE,
                    session, session_after(session, reply.header), FALSE)
    ELSE IF reply.ctype = "event-stream" /\ reply.body = "malformed"
    THEN SendResult(FALSE, "Failed to parse JSON from streaming response",
                    TRUE, session, session_after(session, reply.header), FALSE)
    ELSE IF reply.body \in {"empty", "malformed"}
    THEN SendResult(FALSE, "Failed to parse HTTP response as JSON", TRUE,
                    session, session_after(session, reply.header), FALSE)
    ELSE IF reply.body = "not_response"
    THEN SendResult(FALSE, "Failed to deserialize JSON-RPC response", TRUE,
                    session, session_after(session, reply.header), FALSE)
    ELSE SendResult(TRUE, "none", TRUE, session,
                    session_after(session, reply.header), TRUE)

\* HttpTransport::send(message): the POST carries the stored session id; the
\* kind of the message is looked at when the response has come back.
send(session, kind, reply) ==
    IF reply.net = "unreachable"
    THEN SendResult(FALSE, "Failed to send HTTP request", TRUE, session,
                    session, FALSE)
    ELSE IF reply.net = "status_error"
    THEN SendResult(FALSE, "HTTP request failed with status", TRUE, session,
                    session, FALSE)
    ELSE IF kind = "notification"
    THEN SendResult(TRUE, "none", TRUE, session, session, FALSE)
    ELSE IF kind = "response"
    THEN SendResult(FALSE, "Cannot send a response via HTTP transport", TRUE,
                    session, session, FALSE)
    ELSE parse_body(session, reply)

id_matches_any(resp_id, id) == TRUE

\* request: resp.id != id
id_matches(resp_id, id) == resp_id = id

\* HttpTransport::request after send has returned r.
request_result(r, reply, id) ==
    IF ~r.ok THEN [ok |-> FALSE, err |-> r.err]
    ELSE IF ~r.some
    THEN [ok |-> FALSE, err |-> "Expected response but received none"]
    ELSE IF ~id_matches(reply.id, id)
    THEN [ok |-> FALSE, err |-> "Response ID mismatch"]
    ELSE IF reply.body = "success" THEN [ok |-> TRUE, err |-> "none"]
    ELSE [ok |-> FALSE, err |-> "JSON-RPC error"]

HttpCall(op, kind, ok, err, r, id, reply, before, latest) ==
    [op |-> op, kind |-> kind, ok |-> ok, err |-> err, send_ok |-> r.ok,
     posted |-> r.posted, carried |-> r.carried, id |-> id, reply |-> reply,
     session_before |-> before, latest_before |-> latest]

NoHttpCall ==
    HttpCall("none", "none", TRUE, "none",
             SendResult(TRUE, "none", FALSE, NoSession, NoSession, FALSE),
             NullId, NoReply, NoSession, NoSession)

\* The session id of the last successful response to a request or a
\* notification.
latest_after(latest, kind, reply) ==
    IF kind # "response" /\ reply.net = "ok" /\ reply.header.present
           /\ reply.header.readable
    THEN Session(reply.header.v)
    ELSE latest

HttpIdle ==
    /\ next_id = 0
    /\ session_id = NoSession
    /\ httpCalls = 0
    /\ latest_session = NoSession
    /\ httpLast = NoHttpCall

\* HttpTransport::new / with_client
HttpInit ==
    /\ next_id = 1
    /\ session_id = NoSession
    /\ httpCalls = 0
    /\ latest_session = NoSession
    /\ httpLast = NoHttpCall

\* HttpTransport::request(method, params)
HttpRequest ==
    /\ httpCalls < MaxHttpCalls
    /\ \E reply \in Replies :
          LET id == JsonId("number", next_id)
              r == send(session_id, "request", reply)
              res == request_result(r, reply, id)
          IN /\ session_id' = r.session
             /\ latest_session' = latest_after(latest_session, "request", reply)
             /\ httpLast' = HttpCall("request", "request", res.ok, res.err, r,
                                     id, reply, session_id, latest_session)
    /\ next_id' = next_id + 1
    /\ httpCalls' = httpCalls + 1
    /\ UNCHANGED exceptHttp

\* HttpTransport::notify(method, params)
HttpNotify ==
    /\ httpCalls < MaxHttpCalls
    /\ \E reply \in Replies :
          LET r == send(session_id, "notification", reply)
          IN /\ session_id' = r.session
             /\ latest_session' =
                   latest_after(latest_session, "notification", reply)
             /\ httpLast' = HttpCall("notify", "notification", r.ok, r.err, r,
                                     NullId, reply, session_id, latest_session)
    /\ httpCalls' = httpCalls + 1
    /\ UNCHANGED next_id
    /\ UNCHANGED exceptHttp

\* HttpTransport::send(&message) called directly.
HttpSend ==
    /\ httpCalls < MaxHttpCalls
    /\ \E kind \in MessageKinds, reply \in Replies :
          LET r == send(session_id, kind, reply)
          IN /\ session_id' = r.session
             /\ latest_session' = latest_after(latest_session, kind, reply)
             /\ httpLast' = HttpCall("send", kind, r.ok, r.err, r, NullId,
                                     reply, session_id, latest_session)
    /\ httpCalls' = httpCalls + 1
    /\ UNCHANGED next_id
    /\ UNCHANGED exceptHttp

HttpNext ==
    \/ HttpRequest
    \/ HttpNotify
    \/ HttpSend

(***************************************************************************)
(* Specifications                                                          *)
(***************************************************************************)

InitProvider == ProvInit /\ ServerIdle /\ ConnIdle /\ StartIdle /\ RegistryIdle /\ StoreIdle /\ RwIdle /\ GenIdle /\ PersistIdle /\ ConfigIdle /\ RaceIdle /\ TokIdle /\ FmtIdle /\ ToolIdle /\ HttpIdle

InitServer == ProvIdle /\ ServerIdle /\ ConnIdle /\ StartIdle /\ RegistryIdle /\ StoreIdle /\ RwIdle /\ GenIdle /\ PersistIdle /\ ConfigIdle /\ RaceIdle /\ TokIdle /\ FmtIdle /\ ToolIdle /\ HttpIdle

InitConn == ProvIdle /\ ServerIdle /\ ConnIdle /\ StartIdle /\ RegistryIdle /\ StoreIdle /\ RwIdle /\ GenIdle /\ PersistIdle /\ ConfigIdle /\ RaceIdle /\ TokIdle /\ FmtIdle /\ ToolIdle /\ HttpIdle

InitStart == ProvIdle /\ ServerIdle /\ ConnIdle /\ StartInit /\ RegistryIdle /\ StoreIdle /\ RwIdle /\ GenIdle /\ PersistIdle /\ ConfigIdle /\ RaceIdle /\ TokIdle /\ FmtIdle /\ ToolIdle /\ HttpIdle

InitRegistry == ProvIdle /\ ServerIdle /\ ConnIdle /\ StartIdle /\ RegistryInit /\ StoreIdle /\ RwIdle /\ GenIdle /\ PersistIdle /\ ConfigIdle /\ RaceIdle /\ TokIdle /\ FmtIdle /\ ToolIdle /\ HttpIdle

SpecProvider == InitProvider /\ [][ProvNext]_vars

SpecServer == InitServer /\ [][ServerNext]_vars

SpecConn == InitConn /\ [][ConnNext]_vars

SpecStart == InitStart /\ [][StartNext]_vars

SpecRegistry == InitRegistry /\ [][RegistryNext]_vars

InitStore ==
    ProvIdle /\ ServerIdle /\ ConnIdle /\ StartIdle /\ RegistryIdle /\ StoreInit
        /\ RwIdle /\ GenIdle /\ PersistIdle /\ ConfigIdle /\ RaceIdle /\ TokIdle /\ FmtIdle /\ ToolIdle /\ HttpIdle

SpecStore == InitStore /\ [][StoreNext]_vars

InitRw ==
    ProvIdle /\ ServerIdle /\ ConnIdle /\ StartIdle /\ RegistryIdle /\ StoreIdle
        /\ RwIdle /\ GenIdle /\ PersistIdle /\ ConfigIdle /\ RaceIdle /\ TokIdle /\ FmtIdle /\ ToolIdle /\ HttpIdle

SpecRw == InitRw /\ [][RwNext]_vars

InitGen ==
    ProvIdle /\ ServerIdle /\ ConnIdle /\ StartIdle /\ RegistryIdle /\ StoreIdle
        /\ RwIdle /\ GenInit /\ PersistIdle /\ ConfigIdle /\ RaceIdle /\ TokIdle /\ FmtIdle /\ ToolIdle /\ HttpIdle

SpecGen == InitGen /\ [][GenNext]_vars

InitPersist ==
    ProvIdle /\ ServerIdle /\ ConnIdle /\ StartIdle /\ RegistryIdle /\ StoreIdle
        /\ RwIdle /\ GenIdle /\ PersistInit /\ ConfigIdle /\ RaceIdle /\ TokIdle /\ FmtIdle /\ ToolIdle /\ HttpIdle

SpecPersist == InitPersist /\ [][PersistNext]_vars

InitConfig ==
    ProvIdle /\ ServerIdle /\ ConnIdle /\ StartIdle /\ RegistryIdle /\ StoreIdle
        /\ RwIdle /\ GenIdle /\ PersistIdle /\ ConfigInit /\ RaceIdle /\ TokIdle /\ FmtIdle /\ ToolIdle /\ HttpIdle

SpecConfig == InitConfig /\ [][ConfigNext]_vars

InitRace ==
    ProvIdle /\ ServerIdle /\ ConnIdle /\ StartIdle /\ RegistryIdle /\ StoreIdle
        /\ RwIdle /\ GenIdle /\ PersistIdle /\ ConfigIdle /\ RaceInit /\ TokIdle /\ FmtIdle /\ ToolIdle /\ HttpIdle

SpecRace == InitRace /\ [][RaceNext]_vars

InitTok ==
    ProvIdle /\ ServerIdle /\ ConnIdle /\ StartIdle /\ RegistryIdle /\ StoreIdle
        /\ RwIdle /\ GenIdle /\ PersistIdle /\ ConfigIdle /\ RaceIdle
        /\ TokInit /\ FmtIdle /\ ToolIdle /\ HttpIdle

SpecTok == InitTok /\ [][TokNext]_vars

InitFmt ==
    ProvIdle /\ ServerIdle /\ ConnIdle /\ StartIdle /\ RegistryIdle /\ StoreIdle
        /\ RwIdle /\ GenIdle /\ PersistIdle /\ ConfigIdle /\ RaceIdle
        /\ TokIdle /\ FmtInit /\ ToolIdle /\ HttpIdle

SpecFmt == InitFmt /\ [][FmtNext]_vars

InitTool ==
    ProvIdle /\ ServerIdle /\ ConnIdle /\ StartIdle /\ RegistryIdle /\ StoreIdle
        /\ RwIdle /\ GenIdle /\ PersistIdle /\ ConfigIdle /\ RaceIdle
        /\ TokIdle /\ FmtIdle /\ ToolInit /\ HttpIdle

SpecTool == InitTool /\ [][ToolNext]_vars

InitHttp ==
    ProvIdle /\ ServerIdle /\ ConnIdle /\ StartIdle /\ RegistryIdle /\ StoreIdle
        /\ RwIdle /\ GenIdle /\ PersistIdle /\ ConfigIdle /\ RaceIdle
        /\ TokIdle /\ FmtIdle /\ ToolIdle /\ HttpInit

SpecHttp == InitHttp /\ [][HttpNext]_vars

(***************************************************************************)
(* Properties                                                              *)
(***************************************************************************)

\* A stream of done flags that is some FALSEs followed by exactly one TRUE.
OneTerminalAtEnd(flags) ==
    /\ Len(flags) >= 1
    /\ flags[Len(flags)] = TRUE
    /\ \A i \in 1 .. (Len(flags) - 1) : flags[i] = FALSE

\* C1: whenever Provider.chat has returned Ok, on either backend, the chunks
\* it passed to the callback are zero or more non-terminal chunks followed
\* by exactly one terminal chunk, whether generation ended on an
\* end-of-sequence token or on the token limit.
C1_ChatOkEndsWithOneTerminal ==
    chatPc = "ok" => OneTerminalAtEnd(emitted)

IsTerminalLine(line) == IsLineOfType(line, "done") \/ IsLineOfType(line, "error")

RECURSIVE CountLines(_, _)
CountLines(ls, t) ==
    IF ls = <<>> THEN 0
    ELSE (IF IsLineOfType(Head(ls), t) THEN 1 ELSE 0) + CountLines(Tail(ls), t)

\* The contents of the "chunk" lines among ls[1 .. n], concatenated in order.
RECURSIVE ConcatChunkLines(_, _)
ConcatChunkLines(ls, n) ==
    IF n = 0 THEN <<>>
    ELSE ConcatChunkLines(ls, n - 1)
         \o (IF IsLineOfType(ls[n], "chunk") THEN ls[n][1].content ELSE <<>>)

\* The request types the protocol names.
NamedRequestTypes == {"chat", "edit", "add", "index", "stats"}

\* C2: once a connection on which every write succeeded is closed, exactly
\* one terminal line ("done" or "error") was written and it is the last
\* line; a request that failed (unreadable, not JSON, unknown type) got
\* exactly one "error" line.
C2_OneTerminalLineLast ==
    (srvPc = "closed" /\ ~writeFailed /\ ~connDropped) =>
        LET ls == Lines(out) IN
        /\ Len(ls) >= 1
        /\ IsTerminalLine(ls[Len(ls)])
        /\ CountLines(ls, "done") + CountLines(ls, "error") = 1
        /\ (reqType = NoRequest \/ reqType \in RequestTypes \ NamedRequestTypes)
              => CountLines(ls, "error") = 1

\* C3 as claimed: the content of the "done" line of a chat request equals
\* the concatenation of the contents of the "chunk" lines written before
\* it, whatever the outcome of the chunk writes.
C3_DoneEqualsChunkLines ==
    LET ls == Lines(out) IN
    \A i \in 1 .. Len(ls) :
        (Dispatch(reqType) = "chat" /\ IsLineOfType(ls[i], "done"))
            => ls[i][1].content = ConcatChunkLines(ls, i - 1)

\* C3 as amended: the content of the "done" line of a chat request equals
\* the concatenation, in order, of every content the provider passed to the
\* callback, whatever the outcome of the chunk writes; it equals the
\* concatenation of the "chunk" lines written before it when no chunk
\* write failed.
C3_DoneIsFullReply ==
    LET ls == Lines(out) IN
    \A i \in 1 .. Len(ls) :
        (Dispatch(reqType) = "chat" /\ IsLineOfType(ls[i], "done"))
            => /\ ls[i][1].content = delivered
               /\ ~chunkWriteFailed
                     => ls[i][1].content = ConcatChunkLines(ls, i - 1)

\* A chat reply of two non-empty contents, one chunk write failed, one
\* chunk line and the "done" line written.
C3_Witness ==
    LET ls == Lines(out) IN
    /\ srvPc = "closed"
    /\ reqType = "chat"
    /\ chunkWriteFailed
    /\ Len(delivered) = 2
    /\ Len(ls) = 2
    /\ IsLineOfType(ls[1], "chunk")
    /\ IsLineOfType(ls[2], "done")

\* C4: a request of unknown type never reaches the provider and gets at
\* most one line; when its write succeeds that line is the only output, an
\* "error" line saying "Unknown request type", and the connection is closed.
C4_UnknownTypeOneError ==
    (reqType \in RequestTypes \ NamedRequestTypes) =>
        /\ providerCalls = 0
        /\ nResp = 0
        /\ Len(Lines(out)) <= 1
        /\ (srvPc = "closed" /\ ~writeFailed) =>
              out = <<StreamChunk_error("Unknown request type"), NL>>

C4_Witness ==
    /\ srvPc = "closed"
    /\ reqType = "foo"
    /\ ~writeFailed
    /\ Lines(out) = << <<StreamChunk_error("Unknown request type")>> >>

\* C6: once the client has dropped the connection during a chat reply, the
\* provider is driven no further (no more callbacks) and nothing more is
\* written.
C6_DropAbortsGeneration ==
    [][(connDropped /\ srvPc = "chat") => (nResp' = nResp /\ out' = out)]_vars

IsPrefix(s, t) == Len(s) <= Len(t) /\ SubSeq(t, 1, Len(s)) = s

\* C5: under every interleaving of the handler task and the writer task,
\* what is written is what was sent, in the order sent, nothing lost and
\* nothing twice (as long as no write to the stream fails); the connection
\* is joined only after the handler has returned and the writer has ended,
\* which for a writer that did not fail means the channel is drained and
\* everything sent is written; and then the join is not held back.
C5_ChannelFifo ==
    /\ IsPrefix(wire, sent)
    /\ writePc # "failed" => sent = wire \o chan
    /\ connPc = "joined" =>
          /\ handlePc = "done"
          /\ writePc \in {"done", "failed"}
          /\ writePc = "done" => (wire = sent /\ chan = <<>>)
    /\ (connPc = "running" /\ handlePc = "done" /\ writePc = "done")
          => ENABLED Join

C5_Witness ==
    /\ connPc = "joined"
    /\ writePc = "done"
    /\ wire = <<"a", "b", "a">>
    /\ sent = wire

\* C7: when start() has returned after the shutdown signal, every handler
\* that was in flight when the signal arrived has run to completion, and
\* the endpoint file is gone.
C7_ShutdownDrainsHandlers ==
    startPc = "returned" =>
        /\ \A i \in inFlightAtSignal : tasks[i] = "done"
        /\ sockFile = "absent"

\* C8: no two handlers of different connections are inside Provider.chat on
\* the same provider instance at the same time.
C8_ProviderNotShared ==
    \A i, j \in DOMAIN tasks :
        (i # j /\ tasks[i] = "chat" /\ tasks[j] = "chat")
            => taskProvider[i] # taskProvider[j]

\* C9: register returns true exactly when the granted permission allows the
\* plugin's required permission and its name is not yet registered; a
\* registration under a name in use leaves the earlier plugin in place.
C9_RegisterIffAllowedAndUnused ==
    regLast.op = "register" =>
        /\ regLast.ok <=>
              (/\ allows(granted_permissions, regLast.plugin.required)
               /\ regLast.plugin.name \notin DOMAIN regLast.before)
        /\ regLast.plugin.name \in DOMAIN regLast.before
              => plugins[regLast.plugin.name] = regLast.before[regLast.plugin.name]

\* C10: every plugin that get(name) returns, and every plugin that
\* execute(name) runs, has a required permission the granted permission
\* allows; a register call that returned false left the plugin count as it
\* was.
C10_OnlyAllowedPluginsReachable ==
    /\ \A n \in PluginNames :
          get(plugins, n) # NoPlugin
              => allows(granted_permissions, get(plugins, n).required)
    /\ (regLast.op \in {"get", "execute"} /\ regLast.found # NoPlugin)
          => allows(granted_permissions, regLast.found.required)
    /\ (regLast.op = "register"
          /\ ~allows(granted_permissions, regLast.plugin.required))
          => /\ ~regLast.ok
             /\ get(plugins, regLast.plugin.name) # regLast.plugin
    /\ (regLast.op = "register" /\ ~regLast.ok)
          => get_count(plugins) = get_count(regLast.before)

\* READ_ONLY granted, one plugin registered, and then a plugin that needs
\* READ_WRITE was turned away.
C10_Witness ==
    /\ granted_permissions = "READ_ONLY"
    /\ regLast.op = "register"
    /\ regLast.plugin.required = "READ_WRITE"
    /\ ~regLast.ok
    /\ get_count(plugins) = 1

\* C11: execute under a name with no registered plugin returns an error whose
\* kind is neither invalid-input nor execution-failed and which says the
\* plugin is unknown, and no plugin's execute is entered.
C11_UnknownPluginError ==
    (regLast.op = "execute" /\ regLast.name \notin DOMAIN regLast.before)
        => /\ regLast.err \notin {"None", "InvalidInput", "ExecutionFailed"}
           /\ regLast.msg = "Unknown plugin"
           /\ ~regLast.ran
           /\ ~regLast.spawned

\* "exec" is not registered while "test" is, and execute("exec", ..) was
\* called with a well-formed input.
C11_Witness ==
    /\ regLast.op = "execute"
    /\ regLast.name = "exec"
    /\ DOMAIN regLast.before = {"test"}
    /\ regLast.args = [command |-> "string", cwd |-> "string"]
    /\ regLast.err = "Other"

\* C12: execute checks the input against the plugin's parameter_schema before
\* the plugin runs: an input that violates the schema gets an invalid-input
\* error and the plugin does not act on it.
C12_SchemaCheckedBeforeRun ==
    (/\ regLast.op = "execute"
     /\ regLast.name \in DOMAIN regLast.before
     /\ ~satisfies_parameter_schema(regLast.name, regLast.args))
        => /\ regLast.err = "InvalidInput"
           /\ ~regLast.spawned

\* C13: a tool call whose arguments do not parse, or whose plugin fails,
\* returns Ok with a text that carries the failure; it never returns Err.
C13_ToolFailureIsTextResult ==
    (/\ regLast.op = "tool_call"
     /\ \/ ~regLast.jsonOk
        \/ regLast.msg \in {"Failed to parse tool arguments",
                            "Plugin execution failed"})
        => regLast.ok

IsNonIncreasing(rs) ==
    \A i \in 1 .. Len(rs) - 1 : ~ScoreLess(rs[i].score, rs[i + 1].score)

C15_AtMostMinTopKCount ==
    /\ (storeLast.op = "search" /\ storeLast.ok)
          => /\ Len(storeLast.results) <= storeLast.top_k
             /\ Len(storeLast.results) <= count(storeLast.before)
    /\ (storeLast.op = "search" /\ store_kind = "memory"
          /\ count(storeLast.before) = 0)
          => storeLast.ok /\ storeLast.results = <<>>

\* Three documents stored and a search with top_k = 1 gave one result.
C15_Witness ==
    /\ storeLast.op = "search"
    /\ store_kind = "memory"
    /\ storeLast.top_k = 1
    /\ count(documents) = 3
    /\ Len(storeLast.results) = 1

C17_TiesByIdAscending ==
    (storeLast.op = "search" /\ store_kind = "memory")
        => \A i, j \in DOMAIN storeLast.results :
              (i < j /\ ScoreEq(storeLast.results[i].score,
                                storeLast.results[j].score))
                  => IdRank(storeLast.results[i].document.id)
                        <= IdRank(storeLast.results[j].document.id)

\* C18: every stored document has an embedding of the store's dimension, and
\* an add of a document with another length fails and changes nothing.
C18_WrongDimensionRejected ==
    /\ \A i \in DOMAIN documents : Len(documents[i].embedding) = vector_size
    /\ (storeLast.op = "add" /\ Len(storeLast.document.embedding) # vector_size)
          => ~storeLast.ok /\ documents = storeLast.before

\* C19: clear() returns Ok on both stores and leaves the store empty.
C19_ClearSucceeds ==
    storeLast.op = "clear" => storeLast.ok /\ count(documents) = 0

\* C20: remove_by_source(source) returns Ok and deletes the documents of that
\* source and no others.
C20_RemoveBySourceDeletesSource ==
    storeLast.op = "remove_by_source" =>
        /\ storeLast.ok
        /\ \A i \in DOMAIN documents : documents[i].source # storeLast.source
        /\ \A i \in DOMAIN storeLast.before :
              storeLast.before[i].source # storeLast.source
                  => \E j \in DOMAIN documents : documents[j] = storeLast.before[i]

\* C21: a search or count on the shared in-memory store sees every document
\* whole, sees the documents as they stood between two adds, and sees every
\* add that had returned before the call was made.
C21_ReadsSeeWholeAdds ==
    \A t \in Readers :
        readerSeen[t].op # "none" =>
            /\ \A i \in DOMAIN readerSeen[t].docs : readerSeen[t].docs[i].complete
            /\ Len(readerSeen[t].docs) >= readerStart[t]
            /\ Len(readerSeen[t].docs) <= Len(shared_docs)
            /\ \A i \in DOMAIN readerSeen[t].docs :
                  readerSeen[t].docs[i].id = shared_docs[i].id

\* A read was called while an add held the lock half way through its push,
\* and returned with that add's document in view.
C21_Witness ==
    \E t \in Readers :
        /\ readerSeen[t].op = "search"
        /\ readerStart[t] = 1
        /\ Len(readerSeen[t].docs) = 2
        /\ addsReturned = 2

\* C22: cosine_similarity is 0.0 when the vectors differ in length, when both
\* are empty, and when one of them has magnitude zero.
C22_CosineZeroCases ==
    (/\ storeLast.op = "cosine_similarity"
     /\ \/ Len(storeLast.a) # Len(storeLast.b)
        \/ (storeLast.a = <<>> /\ storeLast.b = <<>>)
        \/ Dot(storeLast.a, storeLast.a) = 0
        \/ Dot(storeLast.b, storeLast.b) = 0)
        => storeLast.score = F32Zero

\* A vector of length two was compared with one of length one whose entry
\* is not zero.
C22_Witness ==
    /\ storeLast.op = "cosine_similarity"
    /\ storeLast.a = <<1, 0>>
    /\ storeLast.b = <<1>>
    /\ storeLast.score = F32Zero

\* C23: with temperature 0 every token chosen is one whose logit is the
\* largest, and two calls with the same request from the same provider state
\* choose the same tokens: the sequence of the second is the beginning of
\* the first's while it runs and equal to it once both have ended.
C23_ZeroTemperatureDeterministic ==
    temperature = 0 =>
        /\ \A c \in Calls : \A i \in DOMAIN chosen[c] :
              /\ chosen[c][i] + 1 \in DOMAIN logits_at[i]
              /\ \A t \in DOMAIN logits_at[i] :
                    logits_at[i][t] <= logits_at[i][chosen[c][i] + 1]
        /\ IsPrefix(chosen[2], chosen[1])
        /\ (\A c \in Calls : genPc[c] = "ok") => chosen[1] = chosen[2]

\* Both calls ran at temperature 0 over logits that favour a real token and
\* then the end-of-sequence token, and both have ended after two steps.
C23_Witness ==
    /\ temperature = 0
    /\ logits_at[1] = [t \in 1 .. VocabSize |-> IF t = 2 THEN 1 ELSE 0]
    /\ logits_at[2] = [t \in 1 .. VocabSize |-> IF t = 1 THEN 1 ELSE 0]
    /\ \A c \in Calls : genPc[c] = "ok" /\ chosen[c] = <<1, 0>>

\* The tokens generated: the chunks that are not the terminal one.
NewTokens(flags) == Len(SelectSeq(flags, LAMBDA done : ~done))

\* C24: a chat call on the CoreML backend generates at most the request's
\* max_tokens new tokens when the request sets it, and at most 512 when it
\* does not.
C24_AtMostMaxTokens ==
    backend = "coreml" =>
        NewTokens(emitted) <=
            (IF request_max_tokens = {}
             THEN max_tokens
             ELSE CHOOSE n \in request_max_tokens : TRUE)

\* C25: when the request to the quantized backend runs into the timeout,
\* chat returns an error that says so, in words no other error of the call
\* uses, and the callback has not been called; an error that says so is
\* returned for a timeout only.
C25_TimeoutErrorDistinct ==
    (backend = "mistralrs" /\ chatPc = "err") =>
        /\ runtime_outcome = "timeout" =>
              /\ chat_error.msg = "Chat request timed out after"
              /\ chat_error.n = timeout_secs
              /\ emitted = <<>>
        /\ runtime_outcome # "timeout" =>
              chat_error.msg # "Chat request timed out after"

\* The request timed out and chat has returned its error.
C25_Witness ==
    /\ backend = "mistralrs"
    /\ chatPc = "err"
    /\ runtime_outcome = "timeout"
    /\ chat_error.variant = "Other"

\* C26: a load that directly follows a successful save to the same path, with
\* the file system answering, succeeds and leaves the store holding the
\* documents that were saved: the same ones, in the same order, with equal
\* id, content and embedding.
C26_SaveLoadRoundTrip ==
    (/\ persistence_path
     /\ persistLast.op = "load"
     /\ persistLast.prev = "save"
     /\ persistLast.io = "ok")
        => /\ persistLast.ok
           /\ persist_documents = last_saved.docs

\* C27: loading from a path at which no file exists succeeds with the empty
\* document list, whatever the store held and whatever a read would have
\* answered.
C27_MissingFileLoadsEmpty ==
    (/\ persistence_path
     /\ persistLast.op = "load"
     /\ disk_file.kind = "absent")
        => /\ persistLast.ok
           /\ persistLast.loaded = 0
           /\ persist_documents = <<>>

C27_Witness ==
    /\ persistence_path
    /\ persistLast.op = "load"
    /\ persistLast.prev = "add"
    /\ disk_file.kind = "absent"
    /\ persistLast.ok

\* C28: every Config a constructor returns has chunk_overlap below chunk_size,
\* and loading a file whose indexer has chunk_overlap >= chunk_size fails.
C28_OverlapBelowChunkSize ==
    /\ (cfgLast.op # "none" /\ cfgLast.ok) =>
           cfgLast.config.indexer.chunk_overlap
               < cfgLast.config.indexer.chunk_size
    /\ (/\ cfgLast.op = "load"
        /\ cfg_file.kind = "yaml"
        /\ cfg_file.indexer.present
        /\ cfg_file.indexer.chunk_overlap >= cfg_file.indexer.chunk_size)
           => ~cfgLast.ok

\* C30: the permission flags of a loaded Config are the ones its file
\* carries: a flag the file sets to false is false after loading.
C30_FilePermissionsInEffect ==
    (cfgLast.op = "load" /\ cfgLast.ok /\ cfg_file.permission.present) =>
        /\ cfgLast.config.permission.read = cfg_file.permission.read
        /\ cfgLast.config.permission.write = cfg_file.permission.write
        /\ cfgLast.config.permission.command = cfg_file.permission.command

\* C29: the message list given to the provider for a chat request is one
\* system message carrying the configured system prompt, then the messages of
\* the request's history in their order with their roles and contents, then
\* one user message carrying the request's content, and nothing else.
C29_MessagesArePromptHistoryUser ==
    providerCalls > 0 =>
        LET h == IF req_history.some THEN req_history.msgs ELSE <<>> IN
        /\ Len(chat_messages) = Len(h) + 2
        /\ chat_messages[1] = [role |-> "system", content |-> system_prompt]
        /\ \A i \in 1..Len(h) : chat_messages[i + 1] = h[i]
        /\ chat_messages[Len(h) + 2] = [role |-> "user", content |-> req_content]

C29_Witness ==
    /\ providerCalls = 1
    /\ req_history.some
    /\ Len(req_history.msgs) = 2
    /\ req_history.msgs[1] # req_history.msgs[2]
    /\ Len(chat_messages) = 4

\* C31: whenever the socket endpoint exists and can receive connections, the
\* socket file has permissions 0600; and a file found at the path was removed
\* before the bind.
C31_SocketAlways0600 ==
    (listening /\ sockFile = "bound") => sockMode = "0600"

\* C32 (as stated): load changes the documents only when a persistence path
\* is set and the file was read and parsed; without a path it returns 0 and
\* on a failure a typed error, the documents unchanged in both cases.
C32_LoadChangesOnlyOnParsedFile ==
    persistLast.op = "load" =>
        /\ persist_documents # persistLast.before =>
              /\ persistence_path
              /\ disk_file.kind = "json"
              /\ persistLast.ok
        /\ ~persistence_path =>
              /\ persist_documents = persistLast.before
              /\ persistLast.ok
              /\ persistLast.loaded = 0
        /\ ~persistLast.ok =>
              /\ persist_documents = persistLast.before
              /\ persistLast.err \in {"Io", "Serialization"}

\* C32 (amended): load changes the documents only when a persistence path is
\* set and it returns Ok, which it does when the file was read and parsed and
\* also when no file exists at the path, the documents then becoming the
\* empty list; without a path it returns 0 and on a failure a typed error,
\* the documents unchanged in both cases.
C32_LoadChangesOnlyOnSuccess ==
    persistLast.op = "load" =>
        /\ persist_documents # persistLast.before =>
              /\ persistence_path
              /\ persistLast.ok
              /\ \/ disk_file.kind = "json"
                 \/ disk_file.kind = "absent" /\ persist_documents = <<>>
        /\ ~persistence_path =>
              /\ persist_documents = persistLast.before
              /\ persistLast.ok
              /\ persistLast.loaded = 0
        /\ ~persistLast.ok =>
              /\ persist_documents = persistLast.before
              /\ persistLast.err \in {"Io", "Serialization"}

C32_Witness ==
    /\ persistLast.op = "load"
    /\ persistence_path
    /\ ~persistLast.ok
    /\ persistLast.err = "Serialization"
    /\ persistLast.before # <<>>
    /\ persist_documents = persistLast.before

\* C33: a search of the in-memory store with top_k >= count() returns every
\* stored document exactly once, and when the query is the embedding, not
\* zero, of a stored document, the first result has score 1.0.
C33_SearchFindsAllOwnScoreOne ==
    (/\ storeLast.op = "search"
     /\ store_kind = "memory"
     /\ storeLast.top_k >= Len(documents))
        => /\ Len(storeLast.results) = Len(documents)
           /\ \A d \in Documents :
                 Cardinality({i \in DOMAIN documents : documents[i] = d})
                     = Cardinality({i \in DOMAIN storeLast.results :
                                       storeLast.results[i].document = d})
           /\ (/\ Dot(storeLast.query, storeLast.query) # 0
               /\ \E i \in DOMAIN documents :
                     documents[i].embedding = storeLast.query)
                 => storeLast.results[1].score = F32One

\* C34: an add that returned while a load was under way (the load had begun
\* to read the file and had not returned) has its document in the store once
\* the load and the adds have all finished.
C34_AddDuringLoadIsKept ==
    (/\ loaderPc = "done"
     /\ \A t \in Adders : raceAdderPc[t] = "idle")
        => \A n \in returned_in_load :
              \E i \in DOMAIN race_docs : race_docs[i].id = n

\* C40: the fallback tokenizer gives every code point a token id of its own:
\* decoding the encoding of a text gives the text back, and two different
\* code points of a text have different token ids.
C40_CodePointsRoundTrip ==
    /\ tokPc = "decoded" => tok_decoded = tok_text
    /\ tokPc # "text" =>
          \A i, j \in DOMAIN tok_text :
              tok_text[i] # tok_text[j] => tok_ids[i] # tok_ids[j]

\* What a token id of the fallback path stands for in the prompt.
TokenItem(id) ==
    CASE id = BOS -> Marker("begin_of_text")
      [] id = START_HEADER -> Marker("start_header_id")
      [] id = END_HEADER -> Marker("end_header_id")
      [] id = EOT -> Marker("eot_id")
      [] id = LINE_FEED_TOKEN -> Ch(10)
      [] OTHER -> Ch(id)

\* The prompt a provider's result stands for.
PromptOf(p) ==
    IF p = "tokenizer" THEN fmt_result[p].prompt
    ELSE [i \in 1 .. Len(fmt_result[p].token_ids) |->
             TokenItem(fmt_result[p].token_ids[i])]

\* The markers and the letters of the role names, in order.
Skeleton(prompt) ==
    SelectSeq(prompt, LAMBDA x : x.k # "char" \/ x.v >= 97)

SkeletonBlock(message) ==
    <<Marker("start_header_id")>> \o Str(role_name(message.role))
        \o <<Marker("end_header_id"), Marker("eot_id")>>

\* One begin-of-text marker, a block per message, the assistant header.
TemplateSkeleton(messages) ==
    <<Marker("begin_of_text")>> \o Blocks(SkeletonBlock, messages, 1)
        \o <<Marker("start_header_id")>> \o Str(role_name("assistant"))
        \o <<Marker("end_header_id")>>

\* C35: the prompt of the CoreML backend has one begin-of-text marker, at
\* its start, then a header, content, end-of-turn block for each message in
\* order, then the assistant header; with and without a tokenizer the prompt
\* has the same structure.
C35_PromptFollowsTemplate ==
    /\ \A p \in FmtProviders :
          fmt_result[p].ok =>
              Skeleton(PromptOf(p)) = TemplateSkeleton(fmt_messages)
    /\ (fmt_result["tokenizer"].ok /\ fmt_result["fallback"].ok)
          => PromptOf("tokenizer") = PromptOf("fallback")

\* C36: whatever the form of the model name, every tool a chat request of
\* the mistral.rs backend carries has a callback in the loaded model, and a
\* call the runtime makes for such a tool is run by the plugin.
C36_AdvertisedToolsHaveCallbacks ==
    /\ advertised \subseteq tool_callbacks
    /\ routed # "response"

\* C37: request returns Ok only for a response with the id of the request it
\* sent; a response with another id, a JSON-RPC error, or no response at all
\* makes it return an error.
C37_RequestOkOnlyForOwnId ==
    httpLast.op = "request" =>
        /\ httpLast.ok =>
              /\ httpLast.reply.net = "ok"
              /\ httpLast.reply.body = "success"
              /\ httpLast.reply.id = httpLast.id
        /\ (\/ httpLast.reply.net # "ok"
            \/ httpLast.reply.body # "success"
            \/ httpLast.reply.id # httpLast.id) => ~httpLast.ok

\* The second request of a transport returned Ok for the response with id 2.
C37_Witness ==
    /\ httpLast.op = "request"
    /\ httpLast.ok
    /\ httpLast.id = JsonId("number", 2)
    /\ httpLast.reply.id = JsonId("number", 2)

\* C38: a send of a JSON-RPC Response fails and makes no HTTP request.
C38_ResponseIsNeverPosted ==
    httpLast.kind = "response" => (~httpLast.ok /\ ~httpLast.posted)

\* C39: after a successful response to a request or a notification has
\* carried an Mcp-Session-Id, every message posted carries the id received
\* last; the stored id is never cleared, and a failed send leaves it as it
\* was.
C39_SessionIdFollowsServer ==
    /\ (httpLast.posted /\ httpLast.latest_before.some)
          => httpLast.carried = httpLast.latest_before
    /\ httpLast.session_before.some => session_id.some
    /\ (httpLast.op # "none" /\ ~httpLast.send_ok)
          => session_id = httpLast.session_before

====
